---- MODULE Spec2Model ----
(***************************************************************************)
(* Model of the demographic transition engine of src/diversityViz.js:      *)
(* the snapshot store (loadData, getInterpolatedSnapshot), the category    *)
(* sampler (getWeightedCategory), the recompute path (update,              *)
(* Person.update, Person.getDisplayData) and the tick loop (_animate).     *)
(*                                                                         *)
(* JavaScript numbers are modelled as exact rationals extended with NaN,   *)
(* +/-Infinity, undefined and a non-numeric string, so that 0/0, x/0 and   *)
(* reads of missing fields behave as they do in the engine.  Rounding of   *)
(* IEEE doubles is not modelled.                                           *)
(***************************************************************************)
EXTENDS Integers, Sequences, FiniteSets, TLC

VARIABLES
    loadState,          \* "pending" | "resolved" | "rejected": the promise of loadData()
    snapshotReady,      \* this.snapshotReady
    snapshotData,       \* this.snapshotData (a sequence of snapshot records)
    lastProgress,       \* this.lastProgress
    currentSnapshot,    \* this.currentSnapshot ([some |-> FALSE] until the first recompute)
    people,             \* this.people: the Person fields the engine reads and writes
    lastUpdateTime,     \* this.lastUpdateTime
    lastScrubProgress,  \* this.lastScrubProgress ([some |-> FALSE] is null)
    now,                \* performance.now() at the last tick
    followerZ,          \* this.sliderFollower.position.z
    scrubStatus,        \* this.scrubStatus ("NONE" until the first tick assigns it)
    scrubProgress,      \* this.scrubProgress
    frame,              \* the number of _animate calls so far
    invocations,        \* the calls of update by the engine so far: when, with what
                        \* progress, by whom, and whether a snapshot was there
    rendered,           \* the people as the last renderer.render call read them
    call,               \* the last direct call of a method of the engine
    ret                 \* what that call returned (or that it threw)

vars == <<loadState, snapshotReady, snapshotData, lastProgress, currentSnapshot,
          people, lastUpdateTime, lastScrubProgress, now, followerZ, scrubStatus,
          scrubProgress, frame, invocations, rendered, call, ret>>

-----------------------------------------------------------------------------
(* JavaScript number semantics                                             *)

Abs(x) == IF x < 0 THEN -x ELSE x

RECURSIVE Gcd(_, _)
Gcd(a, b) == IF b = 0 THEN a ELSE Gcd(b, a % b)

\* The finite number n/d in lowest terms with a positive denominator (d # 0).
Rat(n, d) ==
    LET g == Gcd(Abs(n), Abs(d))
        s == IF d < 0 THEN -1 ELSE 1
    IN  [k |-> "num", n |-> (s * n) \div g, d |-> (s * d) \div g]

Num(i) == Rat(i, 1)
NaN == [k |-> "nan", n |-> 0, d |-> 1]
Inf(s) == [k |-> "inf", n |-> s, d |-> 1]
Undefined == [k |-> "undef", n |-> 0, d |-> 1]
Str == [k |-> "str", n |-> 0, d |-> 1]

Sign(i) == IF i < 0 THEN -1 ELSE IF i > 0 THEN 1 ELSE 0

\* ToNumber: undefined and a non-numeric string convert to NaN.
ToNumber(x) == IF x.k \in {"undef", "str"} THEN NaN ELSE x

IsFinite(x) == x.k = "num"

JNeg(a) ==
    LET x == ToNumber(a)
    IN  IF x.k = "nan" THEN NaN
        ELSE IF x.k = "inf" THEN Inf(-x.n)
        ELSE Rat(-x.n, x.d)

\* a + b: string concatenation when either operand is a string.
JAdd(a, b) ==
    IF a.k = "str" \/ b.k = "str" THEN Str
    ELSE LET x == ToNumber(a)
             y == ToNumber(b)
         IN  IF x.k = "nan" \/ y.k = "nan" THEN NaN
             ELSE IF x.k = "inf" /\ y.k = "inf"
                  THEN (IF x.n = y.n THEN x ELSE NaN)
             ELSE IF x.k = "inf" THEN x
             ELSE IF y.k = "inf" THEN y
             ELSE LET g == Gcd(x.d, y.d)
                  IN  Rat(x.n * (y.d \div g) + y.n * (x.d \div g), (x.d \div g) * y.d)

JSub(a, b) == JAdd(ToNumber(a), JNeg(b))

JMul(a, b) ==
    LET x == ToNumber(a)
        y == ToNumber(b)
    IN  IF x.k = "nan" \/ y.k = "nan" THEN NaN
        ELSE IF x.k = "inf" \/ y.k = "inf"
             THEN (IF x.n = 0 \/ y.n = 0 THEN NaN ELSE Inf(Sign(x.n) * Sign(y.n)))
        ELSE LET g1 == Gcd(Abs(x.n), y.d)
                 g2 == Gcd(Abs(y.n), x.d)
             IN  Rat((x.n \div g1) * (y.n \div g2), (x.d \div g2) * (y.d \div g1))

\* a / b: 0/0 is NaN and x/0 is an infinity (the sign of a zero is not modelled).
JDiv(a, b) ==
    LET x == ToNumber(a)
        y == ToNumber(b)
    IN  IF x.k = "nan" \/ y.k = "nan" THEN NaN
        ELSE IF x.k = "inf"
             THEN (IF y.k = "inf" THEN NaN
                   ELSE Inf(x.n * (IF y.n < 0 THEN -1 ELSE 1)))
        ELSE IF y.k = "inf" THEN Num(0)
        ELSE IF y.n = 0
             THEN (IF x.n = 0 THEN NaN ELSE Inf(Sign(x.n)))
        ELSE LET g1 == Gcd(Abs(x.n), Abs(y.n))
                 g2 == Gcd(y.d, x.d)
             IN  Rat((x.n \div g1) * (y.d \div g2), (x.d \div g2) * (y.n \div g1))

\* a <= b: false whenever an operand converts to NaN.
JLe(a, b) ==
    LET x == ToNumber(a)
        y == ToNumber(b)
    IN  IF x.k = "nan" \/ y.k = "nan" THEN FALSE
        ELSE IF x.k = "inf" THEN (x.n < 0 \/ (y.k = "inf" /\ y.n > 0))
        ELSE IF y.k = "inf" THEN y.n > 0
        ELSE LET g == Gcd(x.d, y.d)
             IN  x.n * (y.d \div g) <= y.n * (x.d \div g)

JGe(a, b) == JLe(b, a)

\* a > b: false whenever an operand converts to NaN.
JGt(a, b) ==
    LET x == ToNumber(a)
        y == ToNumber(b)
    IN  IF x.k = "nan" \/ y.k = "nan" THEN FALSE
        ELSE ~JLe(x, y)

JAbs(a) ==
    LET x == ToNumber(a)
    IN  IF x.k = "nan" THEN NaN
        ELSE IF x.k = "inf" THEN Inf(1)
        ELSE Rat(Abs(x.n), x.d)

\* obj[key]: undefined when the object has no such property.
Get(obj, key) == IF key \in DOMAIN obj THEN obj[key] ELSE Undefined

Null == [some |-> FALSE]
Some(x) == [some |-> TRUE, v |-> x]

-----------------------------------------------------------------------------
(* Snapshot store: loadData and getInterpolatedSnapshot                    *)

\* CompareRate with the operands exchanged (a descending sort).
CompareRate_Reversed(a, b) == JSub(Get(b, "corp_own_rate"), Get(a, "corp_own_rate"))

\* The comparator of the sort in loadData: a.corp_own_rate - b.corp_own_rate.
CompareRate(a, b) == JSub(Get(a, "corp_own_rate"), Get(b, "corp_own_rate"))

\* Array.prototype.sort is stable: x goes after every element that does not
\* compare greater than it.
RECURSIVE InsertByRate(_, _)
InsertByRate(sorted, x) ==
    IF sorted = <<>> THEN <<x>>
    ELSE LET n == Len(sorted)
         IN  IF JGt(CompareRate(sorted[n], x), Num(0))
             THEN Append(InsertByRate(SubSeq(sorted, 1, n - 1), x), sorted[n])
             ELSE Append(sorted, x)

RECURSIVE SortByRate(_)
SortByRate(rawData) ==
    IF rawData = <<>> THEN <<>>
    ELSE LET n == Len(rawData)
         IN  InsertByRate(SortByRate(SubSeq(rawData, 1, n - 1)), rawData[n])

\* The loop that looks for the two snapshots bounding targetRate: the first
\* i (1-based) with snapshots[i].rate <= targetRate <= snapshots[i+1].rate,
\* or 0 when the loop ends without a break.
RECURSIVE FindBracket(_, _, _)
FindBracket(snapshots, targetRate, i) ==
    IF i > Len(snapshots) - 1 THEN 0
    ELSE IF /\ JLe(Get(snapshots[i], "corp_own_rate"), targetRate)
            /\ JGe(Get(snapshots[i + 1], "corp_own_rate"), targetRate)
         THEN i
    ELSE FindBracket(snapshots, targetRate, i + 1)

\* const targetRate = minRate + progress * (maxRate - minRate)
TargetRate(snapshots, progress) ==
    LET minRate == Get(snapshots[1], "corp_own_rate")
        maxRate == Get(snapshots[Len(snapshots)], "corp_own_rate")
    IN  JAdd(minRate, JMul(progress, JSub(maxRate, minRate)))

\* InterpolationT dividing by the upper rate alone.
InterpolationT_ByUpperRate(lower, upper, targetRate) ==
    JDiv(JSub(targetRate, Get(lower, "corp_own_rate")), Get(upper, "corp_own_rate"))

\* const t = (targetRate - lower.rate) / (upper.rate - lower.rate)
InterpolationT(lower, upper, targetRate) ==
    JDiv(JSub(targetRate, Get(lower, "corp_own_rate")),
         JSub(Get(upper, "corp_own_rate"), Get(lower, "corp_own_rate")))

\* The loop over the fields of lower that builds the result.
InterpolateFields(lower, upper, t, targetRate) ==
    [key \in DOMAIN lower |->
        IF key = "corp_own_rate" THEN targetRate
        ELSE JAdd(Get(lower, key), JMul(JSub(Get(upper, key), Get(lower, key)), t))]

\* The snapshots of the interpolation: lower and upper start as the first and
\* the last snapshot and are replaced by the bracket the loop finds.
LowerSnapshot(snapshots, targetRate) ==
    LET b == FindBracket(snapshots, targetRate, 1)
    IN  IF b = 0 THEN snapshots[1] ELSE snapshots[b]

UpperSnapshot(snapshots, targetRate) ==
    LET b == FindBracket(snapshots, targetRate, 1)
    IN  IF b = 0 THEN snapshots[Len(snapshots)] ELSE snapshots[b + 1]

\* getInterpolatedSnapshot(progress), reading this.snapshotReady and
\* this.snapshotData: Null is the "not ready" null.
InterpolateBetween(lower, upper, targetRate) ==
    InterpolateFields(lower, upper, InterpolationT(lower, upper, targetRate), targetRate)

InterpolateAt(snapshots, targetRate) ==
    InterpolateBetween(LowerSnapshot(snapshots, targetRate),
                       UpperSnapshot(snapshots, targetRate), targetRate)

getInterpolatedSnapshot(ready, data, progress) ==
    IF ~ready \/ Len(data) = 0 THEN Null
    ELSE Some(InterpolateAt(data, TargetRate(data, progress)))

-----------------------------------------------------------------------------
(* Category sampler: getWeightedCategory                                   *)

\* Object.values(weights).reduce((a, b) => a + b, 0); a weight map is the
\* sequence of its [key, w] entries in declaration order.
RECURSIVE TotalWeight(_)
TotalWeight(weights) ==
    IF weights = <<>> THEN Num(0)
    ELSE LET n == Len(weights)
         IN  JAdd(TotalWeight(SubSeq(weights, 1, n - 1)), weights[n].w)

\* The cumulative list: sum += weights[key] / total and a push of
\* {key, threshold: sum} for each of the first n keys in order.
RECURSIVE CumulativeOf(_, _, _)
CumulativeOf(weights, total, n) ==
    IF n = 0 THEN <<>>
    ELSE LET before == CumulativeOf(weights, total, n - 1)
             sum == IF n = 1 THEN Num(0) ELSE before[n - 1].threshold
         IN  Append(before, [key |-> weights[n].key,
                             threshold |-> JAdd(sum, JDiv(weights[n].w, total))])

Cumulative(weights) == CumulativeOf(weights, TotalWeight(weights), Len(weights))

\* PseudoRandom as personIndex / totalPeople.
PseudoRandom_FromZero(personIndex, totalPeople) ==
    JDiv(Num(personIndex), Num(totalPeople))

\* PseudoRandom counting the people from the last one.
PseudoRandom_Reversed(personIndex, totalPeople) ==
    JDiv(Num(totalPeople - personIndex), Num(totalPeople + 1))

\* const pseudoRandom = (personIndex + 1) / (totalPeople + 1)
PseudoRandom(personIndex, totalPeople) ==
    JDiv(Num(personIndex + 1), Num(totalPeople + 1))

\* Qualifies with a strict comparison.
Qualifies_Strict(pseudoRandom, entry) ==
    JLe(pseudoRandom, entry.threshold) /\ pseudoRandom # entry.threshold

\* if (pseudoRandom <= entry.threshold) return entry.key
Qualifies(pseudoRandom, entry) == JLe(pseudoRandom, entry.threshold)

\* The scan of the cumulative list: the index of the first qualifying entry,
\* or 0 when none qualifies.
RECURSIVE FirstQualifying(_, _, _)
FirstQualifying(cumulative, pseudoRandom, i) ==
    IF i > Len(cumulative) THEN 0
    ELSE IF Qualifies(pseudoRandom, cumulative[i]) THEN i
    ELSE FirstQualifying(cumulative, pseudoRandom, i + 1)

Returned(x) == [kind |-> "value", v |-> x]
Threw(e) == [kind |-> "throw", v |-> e]

\* getWeightedCategory(weights, personIndex, totalPeople): the label, or the
\* TypeError of reading .key of cumulative[-1] when the map is empty.
ReturnEntry(cumulative, hit) ==
    IF hit # 0 THEN Returned(cumulative[hit].key)
    ELSE IF Len(cumulative) = 0 THEN Threw("TypeError")
    ELSE Returned(cumulative[Len(cumulative)].key)

ScanCumulative(cumulative, pseudoRandom) ==
    ReturnEntry(cumulative, FirstQualifying(cumulative, pseudoRandom, 1))

getWeightedCategory(weights, personIndex, totalPeople) ==
    ScanCumulative(Cumulative(weights), PseudoRandom(personIndex, totalPeople))

-----------------------------------------------------------------------------
(* Configuration (the constructor of DiversityVisualizer)                  *)

\* this.totalPeople = cols * rows (10 * 10 in the source), bounded here.
TotalPeople == 3

\* this.updateInterval, in ms (the second assignment in the constructor wins).
updateInterval == 100

\* this.corridorBounds
xMin == -1
xMax == 1
zMin == -5
zMax == 5

\* config.cols, config.rows, config.spacing and config.clusterCenter
cols == 10
rows == 10
spacing == 2
clusterCenterX == 12
clusterCenterZ == 0

\* config.clustering.globalStrength
globalStrength == Rat(1, 10)

\* config.raceColors (0x588157, 0x3a7ca5, 0xef476f, 0xffc857), raceLabels,
\* ageHeights, ageLabels and eduLabels; JavaScript index i is position i + 1.
raceColors == <<5800279, 3832997, 15681391, 16762967>>
raceLabels == <<"White", "Asian", "Black", "Hispanic / Other">>
ageHeights == <<Rat(2, 10), Rat(5, 10), Num(1)>>
ageLabels == <<"0-19", "20-34", "35+">>
eduLabels == <<"< High School", "High School / Some College", "Bachelor or Above">>

-----------------------------------------------------------------------------
(* Person                                                                  *)

NoJob == "undefined"

\* The place _initPeople gives person i on the grid around the cluster centre
\* (cols and rows are even, so cols / 2 and rows / 2 are whole).
GridX(i) == clusterCenterX + ((i % cols) - (cols \div 2)) * spacing
GridZ(i) == clusterCenterZ + ((i \div cols) - (rows \div 2)) * spacing

\* A 2-D vector of a person.  Vector lengths are square roots, which the
\* rationals do not hold, so the vector is kept as the value it had at
\* construction and the clustering steps applied to it since: one entry per
\* call of applyClusteringForce, holding the strength of that call.
Vector2(x, z) == [x |-> x, z |-> z, steps |-> <<>>]

\* new Person(index, originalRace, targetRace, ageIndex, targetAgeIndex,
\* educationLevel, targetEducationLevel, ...): the material colour is that of
\* the original race, the cylinder has its geometry's height 0.2 (scale 1) and
\* the education sprite shows educationLevel; the person stands at its grid
\* place with velocity 0.
NewPerson(index, originalRace, targetRace, ageIndex, targetAgeIndex, educationLevel, targetEducationLevel) ==
    [index |-> index,
     position2D |-> Vector2(GridX(index), GridZ(index)),
     velocity |-> Vector2(0, 0),
     originalRace |-> originalRace, targetRace |-> targetRace,
     ageIndex |-> ageIndex, targetAgeIndex |-> targetAgeIndex,
     educationLevel |-> educationLevel,
     targetEducationLevel |-> targetEducationLevel,
     targetJobCategory |-> NoJob,
     meshColor |-> raceColors[originalRace + 1],
     meshHeight |-> Rat(2, 10),
     eduMeshLevel |-> educationLevel]

\* Threshold counting the people from one.
Threshold_FromOne(person, totalPeople) ==
    JDiv(Num(person.index + 1), Num(totalPeople))

\* Threshold counting the people from the last one.
Threshold_Reversed(person, totalPeople) ==
    JDiv(Num(totalPeople - 1 - person.index), Num(totalPeople))

\* const threshold = this.index / this.viz.totalPeople
Threshold(person, totalPeople) == JDiv(Num(person.index), Num(totalPeople))

\* Strength without the progress factor.
Strength_Constant(progress) == globalStrength

\* const strength = progress * cfg.globalStrength
Strength(progress) == JMul(progress, globalStrength)

\* Person.applyClusteringForce(progress): one integration step, vel.add(force),
\* vel.multiplyScalar(damping), pos.add(vel).
applyClusteringForce(person, progress) ==
    [person EXCEPT !.velocity.steps = Append(@, Strength(progress)),
                   !.position2D.steps = Append(@, Strength(progress))]

\* Person_update putting the person back on its grid place.
Person_update_Replaces(person, progress, totalPeople) ==
    LET switched == JGe(progress, Threshold(person, totalPeople))
        raceIndex == IF switched THEN person.targetRace ELSE person.originalRace
        ageIndex == IF switched THEN person.targetAgeIndex ELSE person.ageIndex
        eduLevel == IF switched THEN person.targetEducationLevel
                    ELSE person.educationLevel
    IN  [person EXCEPT !.meshColor = raceColors[raceIndex + 1],
                       !.meshHeight = ageHeights[ageIndex + 1],
                       !.eduMeshLevel = eduLevel,
                       !.position2D = Vector2(GridX(person.index), GridZ(person.index))]

\* Person_update with a strict comparison against the threshold.
Person_update_Strict(person, progress, totalPeople) ==
    LET switched == JGt(progress, Threshold(person, totalPeople))
        raceIndex == IF switched THEN person.targetRace ELSE person.originalRace
        ageIndex == IF switched THEN person.targetAgeIndex ELSE person.ageIndex
        eduLevel == IF switched THEN person.targetEducationLevel
                    ELSE person.educationLevel
    IN  [person EXCEPT !.meshColor = raceColors[raceIndex + 1],
                       !.meshHeight = ageHeights[ageIndex + 1],
                       !.eduMeshLevel = eduLevel]

\* Person.update(progress): recolours and rescales the mesh and replaces the
\* education sprite.
Person_update(person, progress, totalPeople) ==
    LET switched == JGe(progress, Threshold(person, totalPeople))
        raceIndex == IF switched THEN person.targetRace ELSE person.originalRace
        ageIndex == IF switched THEN person.targetAgeIndex ELSE person.ageIndex
        eduLevel == IF switched THEN person.targetEducationLevel
                    ELSE person.educationLevel
    IN  [person EXCEPT !.meshColor = raceColors[raceIndex + 1],
                       !.meshHeight = ageHeights[ageIndex + 1],
                       !.eduMeshLevel = eduLevel]

\* targetJobCategory?.replace('Job_', '').replace('_', ' ') || 'Unknown'
JobDisplay(targetJobCategory) ==
    CASE targetJobCategory = "Job_Technology" -> "Technology"
      [] targetJobCategory = "Job_Corporate" -> "Corporate"
      [] targetJobCategory = "Job_Healthcare" -> "Healthcare"
      [] targetJobCategory = "Job_Construction" -> "Construction"
      [] targetJobCategory = "Job_Hospitality" -> "Hospitality"
      [] targetJobCategory = "Job_Repair_Tech" -> "Repair Tech"
      [] OTHER -> "Unknown"

\* getDisplayData with a strict comparison against the threshold.
getDisplayData_Strict(person, progress, totalPeople) ==
    LET switched == JGt(progress, Threshold(person, totalPeople))
        raceIndex == IF switched THEN person.targetRace ELSE person.originalRace
        ageIndex == IF switched THEN person.targetAgeIndex ELSE person.ageIndex
        eduLevel == IF switched THEN person.targetEducationLevel
                    ELSE person.educationLevel
    IN  [race |-> raceLabels[raceIndex + 1],
         age |-> ageLabels[ageIndex + 1],
         education |-> eduLabels[eduLevel + 1],
         job |-> JobDisplay(person.targetJobCategory)]

\* Person.getDisplayData(progress)
getDisplayData(person, progress, totalPeople) ==
    LET switched == JGe(progress, Threshold(person, totalPeople))
        raceIndex == IF switched THEN person.targetRace ELSE person.originalRace
        ageIndex == IF switched THEN person.targetAgeIndex ELSE person.ageIndex
        eduLevel == IF switched THEN person.targetEducationLevel
                    ELSE person.educationLevel
    IN  [race |-> raceLabels[raceIndex + 1],
         age |-> ageLabels[ageIndex + 1],
         education |-> eduLabels[eduLevel + 1],
         job |-> JobDisplay(person.targetJobCategory)]

-----------------------------------------------------------------------------
(* Recompute path: DiversityVisualizer.update                              *)

Entry(snapshot, key) == [key |-> key, w |-> Get(snapshot, key)]

RaceWeights(snapshot) ==
    <<Entry(snapshot, "White"), Entry(snapshot, "Asian"), Entry(snapshot, "Black"),
      Entry(snapshot, "Hispanic"), Entry(snapshot, "Other")>>

raceIndexMap(label) ==
    CASE label = "White" -> 0
      [] label = "Asian" -> 1
      [] label = "Black" -> 2
      [] label = "Hispanic" -> 3
      [] label = "Other" -> 3

AgeWeights(snapshot) ==
    <<Entry(snapshot, "Age_0_19"), Entry(snapshot, "Age_20_34"),
      Entry(snapshot, "Age_35_54"), Entry(snapshot, "Age_55_plus")>>

ageIndexMap(label) ==
    CASE label = "Age_0_19" -> 0
      [] label = "Age_20_34" -> 1
      [] label = "Age_35_54" -> 2
      [] label = "Age_55_plus" -> 2

EduWeights(snapshot) ==
    <<Entry(snapshot, "Edu_Below_High_School"), Entry(snapshot, "Edu_High_School"),
      Entry(snapshot, "Edu_Some_College"), Entry(snapshot, "Edu_Bachelor_or_Above")>>

eduIndexMap(label) ==
    CASE label = "Edu_Below_High_School" -> 0
      [] label = "Edu_High_School" -> 1
      [] label = "Edu_Some_College" -> 1
      [] label = "Edu_Bachelor_or_Above" -> 2

JobWeights(snapshot) ==
    <<Entry(snapshot, "Job_Technology"), Entry(snapshot, "Job_Corporate"),
      Entry(snapshot, "Job_Healthcare"), Entry(snapshot, "Job_Construction"),
      Entry(snapshot, "Job_Hospitality"), Entry(snapshot, "Job_Repair_Tech")>>

\* Resample keeping the targets of a person that already has a target job.
Resample_Sticky(person, snapshot, i, totalPeople, progress) ==
    IF person.targetJobCategory # NoJob
    THEN Person_update(person, progress, totalPeople)
    ELSE LET raceChoice == getWeightedCategory(RaceWeights(snapshot), i, totalPeople).v
             ageChoice == getWeightedCategory(AgeWeights(snapshot), i, totalPeople).v
             eduChoice == getWeightedCategory(EduWeights(snapshot), i, totalPeople).v
             jobChoice == getWeightedCategory(JobWeights(snapshot), i, totalPeople).v
         IN  Person_update([person EXCEPT !.targetRace = raceIndexMap(raceChoice),
                                          !.targetAgeIndex = ageIndexMap(ageChoice),
                                          !.targetEducationLevel = eduIndexMap(eduChoice),
                                          !.targetJobCategory = jobChoice],
                           progress, totalPeople)

\* One iteration of the loop over the people: the four samplings, the four
\* target assignments and person.update(progress).
Resample(person, snapshot, i, totalPeople, progress) ==
    LET raceChoice == getWeightedCategory(RaceWeights(snapshot), i, totalPeople).v
        ageChoice == getWeightedCategory(AgeWeights(snapshot), i, totalPeople).v
        eduChoice == getWeightedCategory(EduWeights(snapshot), i, totalPeople).v
        jobChoice == getWeightedCategory(JobWeights(snapshot), i, totalPeople).v
    IN  Person_update([person EXCEPT !.targetRace = raceIndexMap(raceChoice),
                                     !.targetAgeIndex = ageIndexMap(ageChoice),
                                     !.targetEducationLevel = eduIndexMap(eduChoice),
                                     !.targetJobCategory = jobChoice],
                      progress, totalPeople)

\* UpdateWith assigning lastProgress before the check of the snapshot.
UpdateWith_AssignsFirst(st, snapshot, progress) ==
    IF ~snapshot.some THEN [st EXCEPT !.lastProgress = progress]
    ELSE [lastProgress |-> progress,
          currentSnapshot |-> snapshot,
          people |-> [i \in 1..Len(st.people) |->
                        Resample(st.people[i], snapshot.v, i - 1,
                                 Len(st.people), progress)]]

\* update(progress) on the engine state st = [lastProgress, currentSnapshot,
\* people], reading snapshotReady and snapshotData.  The writes to the sky dome
\* and the buildings (scene graph only) are not part of the state.
UpdateWith(st, snapshot, progress) ==
    IF ~snapshot.some THEN st
    ELSE [lastProgress |-> progress,
          currentSnapshot |-> snapshot,
          people |-> [i \in 1..Len(st.people) |->
                        Resample(st.people[i], snapshot.v, i - 1,
                                 Len(st.people), progress)]]

update(st, ready, data, progress) ==
    UpdateWith(st, getInterpolatedSnapshot(ready, data, progress), progress)

EngineState == [lastProgress |-> lastProgress, currentSnapshot |-> currentSnapshot,
                people |-> people]

-----------------------------------------------------------------------------
(* Population: _initPeople                                                 *)

\* The values Math.random() takes in the model: the three draws made for a
\* person (race, age, education) return one value, and the value alternates
\* between 1/4 and 3/4 from person to person.
RandomDraws ==
    {[i \in 1..TotalPeople |-> IF i % 2 = first THEN Rat(1, 4) ELSE Rat(3, 4)] :
        first \in {0, 1}}

\* Math.floor(Math.random() * len)
RandomIndex(r, len) == (r.n * len) \div r.d

\* finalCounts: floor(p * totalPeople) for p in [0.9, 0.05, 0.03, 0.02], the
\* first count raised until the counts add up to totalPeople.
finalCounts(total) ==
    LET c1 == (9 * total) \div 10
        c2 == total \div 20
        c3 == (3 * total) \div 100
        c4 == total \div 50
        short == total - (c1 + c2 + c3 + c4)
    IN  <<c1 + (IF short > 0 THEN short ELSE 0), c2, c3, c4>>

\* targetRaceIndices before the shuffle: finalCounts[r] copies of each race r.
UnshuffledTargetRace(total) ==
    LET c == finalCounts(total)
    IN  [j \in 1..total |->
            IF j <= c[1] THEN 0
            ELSE IF j <= c[1] + c[2] THEN 1
            ELSE IF j <= c[1] + c[2] + c[3] THEN 2
            ELSE 3]

\* The people _initPeople creates from the draws r (one per person) and the
\* permutation perm the shuffle applies.
InitPeople(r, perm) ==
    [i \in 1..TotalPeople |->
        NewPerson(i - 1,
                  RandomIndex(r[i], Len(raceColors)),
                  UnshuffledTargetRace(TotalPeople)[perm[i]],
                  RandomIndex(r[i], Len(ageHeights)),
                  0,
                  RandomIndex(r[i], 3),
                  2)]

InitialPopulations ==
    {InitPeople(r, perm) : r \in RandomDraws, perm \in Permutations(1..TotalPeople)}

-----------------------------------------------------------------------------
(* Tick loop: _animate                                                     *)

\* Clamp that lets every value through.
Clamp_None(value, lo, hi) == value

\* Lerp that jumps to the end value.
Lerp_Jump(x, y, t) == y

\* THREE.MathUtils.clamp and THREE.MathUtils.lerp
Clamp(value, lo, hi) == IF value < lo THEN lo ELSE IF value > hi THEN hi ELSE value
Lerp(x, y, t) == JAdd(JMul(JSub(Num(1), t), x), JMul(t, y))

\* const damping = 0.01 of the slider follower
FollowerDamping == Rat(1, 100)

\* progress = (z - zMin) / (zMax - zMin)
ScrubProgress(z) == JDiv(JSub(z, Num(zMin)), Num(zMax - zMin))

\* Math.abs(progress - (this.lastScrubProgress ?? -1)) > 0.001
ProgressChanged(progress, last) ==
    JGt(JAbs(JSub(progress, IF last.some THEN last.v ELSE Num(-1))), Rat(1, 1000))

\* now - this.lastUpdateTime > this.updateInterval && progressChanged
ShouldRecompute(t, lastUpdate, progress, last) ==
    t - lastUpdate > updateInterval /\ ProgressChanged(progress, last)

\* The engine fields update reads and writes.
EngineOf(st) ==
    [lastProgress |-> st.lastProgress, currentSnapshot |-> st.currentSnapshot,
     people |-> st.people]

\* The entry of a call of update(progress) at time t.
Invocation(st, progress, t, by) ==
    [at |-> t, progress |-> progress, by |-> by,
     ran |-> getInterpolatedSnapshot(st.snapshotReady, st.snapshotData, progress).some]

\* AnimateEnd easing the follower in every frame.
AnimateEnd_AlwaysEases(st, inCorridor, progress, recompute, upd, camZ, t) ==
    [st EXCEPT
        !.invocations = IF recompute
                        THEN Append(@, Invocation(st, progress, t, "tick"))
                        ELSE @,
        !.lastProgress = upd.lastProgress,
        !.currentSnapshot = upd.currentSnapshot,
        !.people = upd.people,
        !.rendered = upd.people,
        !.lastUpdateTime = IF recompute THEN t ELSE @,
        !.lastScrubProgress = IF recompute THEN Some(progress) ELSE @,
        !.scrubStatus = IF inCorridor THEN "ACTIVE" ELSE "FROZEN",
        !.scrubProgress = IF inCorridor THEN Some(progress) ELSE @,
        !.followerZ = Lerp(@, Num(Clamp(camZ, zMin, zMax)), FollowerDamping),
        !.now = t,
        !.frame = @ + 1]

\* AnimateEnd with renderer.render called before the recompute.
AnimateEnd_RendersFirst(st, inCorridor, progress, recompute, upd, camZ, t) ==
    [st EXCEPT
        !.invocations = IF recompute
                        THEN Append(@, Invocation(st, progress, t, "tick"))
                        ELSE @,
        !.lastProgress = upd.lastProgress,
        !.currentSnapshot = upd.currentSnapshot,
        !.people = upd.people,
        !.rendered = st.people,
        !.lastUpdateTime = IF recompute THEN t ELSE @,
        !.lastScrubProgress = IF recompute THEN Some(progress) ELSE @,
        !.scrubStatus = IF inCorridor THEN "ACTIVE" ELSE "FROZEN",
        !.scrubProgress = IF inCorridor THEN Some(progress) ELSE @,
        !.followerZ = IF inCorridor
                      THEN Lerp(@, Num(Clamp(camZ, zMin, zMax)), FollowerDamping)
                      ELSE @,
        !.now = t,
        !.frame = @ + 1]

\* The end of a frame: what the recompute left (upd), the throttle fields, the
\* scrub status and the eased follower.
AnimateEnd(st, inCorridor, progress, recompute, upd, camZ, t) ==
    [st EXCEPT
        !.invocations = IF recompute
                        THEN Append(@, Invocation(st, progress, t, "tick"))
                        ELSE @,
        !.lastProgress = upd.lastProgress,
        !.currentSnapshot = upd.currentSnapshot,
        !.people = upd.people,
        !.rendered = upd.people,
        !.lastUpdateTime = IF recompute THEN t ELSE @,
        !.lastScrubProgress = IF recompute THEN Some(progress) ELSE @,
        !.scrubStatus = IF inCorridor THEN "ACTIVE" ELSE "FROZEN",
        !.scrubProgress = IF inCorridor THEN Some(progress) ELSE @,
        !.followerZ = IF inCorridor
                      THEN Lerp(@, Num(Clamp(camZ, zMin, zMax)), FollowerDamping)
                      ELSE @,
        !.now = t,
        !.frame = @ + 1]

AnimateRecompute(st, inCorridor, progress, recompute, camZ, t) ==
    AnimateEnd(st, inCorridor, progress, recompute,
               IF recompute
               THEN update(EngineOf(st), st.snapshotReady, st.snapshotData, progress)
               ELSE EngineOf(st),
               camZ, t)

AnimateScrub(st, inCorridor, progress, camZ, t) ==
    AnimateRecompute(st, inCorridor, progress,
                     inCorridor /\ ShouldRecompute(t, st.lastUpdateTime, progress,
                                                   st.lastScrubProgress),
                     camZ, t)

\* Clustered that waits for the snapshots.
Clustered_WhenReady(st) ==
    IF ~st.snapshotReady THEN st
    ELSE [st EXCEPT !.people = [i \in 1..Len(st.people) |->
                                  applyClusteringForce(st.people[i], st.lastProgress)]]

\* this.people.forEach(p => p.applyClusteringForce(this.lastProgress))
Clustered(st) ==
    [st EXCEPT !.people = [i \in 1..Len(st.people) |->
                             applyClusteringForce(st.people[i], st.lastProgress)]]

AnimateCorridor(st, camX, camZ, t) ==
    AnimateScrub(st, camX >= xMin /\ camX <= xMax, ScrubProgress(st.followerZ),
                 camZ, t)

\* One call of _animate on the engine state st, with the camera's world
\* position (camX, camZ) and performance.now() = t: the clustering step of
\* every person, then the scrub, then renderer.render.  Camera movement,
\* hover highlighting and the canvas labels write only the scene.
Animate(st, camX, camZ, t) == AnimateCorridor(Clustered(st), camX, camZ, t)

\* The fields the constructor sets before it calls _animate.
Constructing(population) ==
    [snapshotReady |-> FALSE, snapshotData |-> <<>>,
     lastProgress |-> Num(0), currentSnapshot |-> Null,
     people |-> population,
     lastUpdateTime |-> 0, lastScrubProgress |-> Null,
     now |-> 0, followerZ |-> Num(0),
     scrubStatus |-> "NONE", scrubProgress |-> Null, frame |-> 0,
     invocations |-> <<>>, rendered |-> <<>>]

Current ==
    [snapshotReady |-> snapshotReady, snapshotData |-> snapshotData,
     lastProgress |-> lastProgress, currentSnapshot |-> currentSnapshot,
     people |-> people,
     lastUpdateTime |-> lastUpdateTime, lastScrubProgress |-> lastScrubProgress,
     now |-> now, followerZ |-> followerZ,
     scrubStatus |-> scrubStatus, scrubProgress |-> scrubProgress, frame |-> frame,
     invocations |-> invocations, rendered |-> rendered]

\* The camera positions and frame times of the model.
CamXs == {0, 2}
CamZs == {-6, 6}
FrameTimes == {60, 120}
MaxFrames == 3

NoCall == [op |-> "none"]
NoReturn == [kind |-> "none"]

\* The constructor: the fields are set, the people created, _animate called
\* once, and then loadData() started.
StartsAs(st) ==
    /\ loadState = "pending"
    /\ snapshotReady = st.snapshotReady
    /\ snapshotData = st.snapshotData
    /\ lastProgress = st.lastProgress
    /\ currentSnapshot = st.currentSnapshot
    /\ people = st.people
    /\ lastUpdateTime = st.lastUpdateTime
    /\ lastScrubProgress = st.lastScrubProgress
    /\ now = st.now
    /\ followerZ = st.followerZ
    /\ scrubStatus = st.scrubStatus
    /\ scrubProgress = st.scrubProgress
    /\ frame = st.frame
    /\ invocations = st.invocations
    /\ rendered = st.rendered
    /\ call = NoCall
    /\ ret = NoReturn

Constructed(population, camX, camZ, t) ==
    StartsAs(Animate(Constructing(population), camX, camZ, t))

\* The camera rig is created at (0, 1.6, 0) and has not moved when the
\* constructor calls _animate.
Init ==
    \E population \in InitialPopulations, t \in FrameTimes :
        Constructed(population, 0, 0, t)

\* A later frame of the animation loop.
FrameEndsAs(st) ==
    /\ lastProgress' = st.lastProgress
    /\ currentSnapshot' = st.currentSnapshot
    /\ people' = st.people
    /\ lastUpdateTime' = st.lastUpdateTime
    /\ lastScrubProgress' = st.lastScrubProgress
    /\ now' = st.now
    /\ followerZ' = st.followerZ
    /\ scrubStatus' = st.scrubStatus
    /\ scrubProgress' = st.scrubProgress
    /\ frame' = st.frame
    /\ invocations' = st.invocations
    /\ rendered' = st.rendered

Tick(camX, camZ, dt) ==
    /\ frame < MaxFrames
    /\ FrameEndsAs(Animate(Current, camX, camZ, now + dt))
    /\ UNCHANGED <<loadState, snapshotReady, snapshotData, call, ret>>

\* The engine fields after a call of update.
RecomputeEndsAs(st) ==
    /\ lastProgress' = st.lastProgress
    /\ currentSnapshot' = st.currentSnapshot
    /\ people' = st.people

\* x || 0
OrZero(x) ==
    IF (x.k = "num" /\ x.n # 0) \/ x.k \in {"inf", "str"} THEN x ELSE Num(0)

\* The time from the last frame to the moment the load resolves, in ms.
LoadDelays == {10}

\* loadData() resolves with rawData, delay ms after the last frame, and the
\* constructor's callback runs: the data is sorted and stored, the store
\* marked ready, and update(this.lastProgress || 0) called.
LoadResolve(rawData, delay) ==
    /\ loadState = "pending"
    /\ loadState' = "resolved"
    /\ now' = now + delay
    /\ snapshotData' = SortByRate(rawData)
    /\ snapshotReady' = TRUE
    /\ RecomputeEndsAs(update(EngineState, TRUE, SortByRate(rawData),
                              OrZero(lastProgress)))
    /\ invocations' = Append(invocations,
                             [at |-> now + delay, progress |-> OrZero(lastProgress),
                              by |-> "load", ran |-> Len(rawData) > 0])
    /\ UNCHANGED <<lastUpdateTime, lastScrubProgress, followerZ, scrubStatus,
                   scrubProgress, frame, rendered, call, ret>>

\* fetch() or response.json() rejects: loadData() rejects, the callback never
\* runs and nothing is stored.
LoadReject ==
    /\ loadState = "pending"
    /\ loadState' = "rejected"
    /\ UNCHANGED <<snapshotReady, snapshotData, lastProgress, currentSnapshot, people,
                   lastUpdateTime, lastScrubProgress, now, followerZ, scrubStatus,
                   scrubProgress, frame, invocations, rendered, call, ret>>

-----------------------------------------------------------------------------
(* Direct calls of the engine's methods                                    *)

CallGetInterpolatedSnapshot(progress) ==
    /\ call = NoCall
    /\ call' = [op |-> "getInterpolatedSnapshot", progress |-> progress]
    /\ ret' = LET r == getInterpolatedSnapshot(snapshotReady, snapshotData, progress)
              IN  IF r.some THEN Returned(r.v) ELSE [kind |-> "null"]
    /\ UNCHANGED <<loadState, snapshotReady, snapshotData, lastProgress,
                   currentSnapshot, people, lastUpdateTime, lastScrubProgress, now,
                   followerZ, scrubStatus, scrubProgress, frame, invocations,
                   rendered>>

CallGetWeightedCategory(weights, personIndex, totalPeople) ==
    /\ call = NoCall
    /\ call' = [op |-> "getWeightedCategory", weights |-> weights,
                personIndex |-> personIndex, totalPeople |-> totalPeople]
    /\ ret' = getWeightedCategory(weights, personIndex, totalPeople)
    /\ UNCHANGED <<loadState, snapshotReady, snapshotData, lastProgress,
                   currentSnapshot, people, lastUpdateTime, lastScrubProgress, now,
                   followerZ, scrubStatus, scrubProgress, frame, invocations,
                   rendered>>

CallUpdate(progress) ==
    /\ call' = [op |-> "update", progress |-> progress]
    /\ ret' = NoReturn
    /\ RecomputeEndsAs(update(EngineState, snapshotReady, snapshotData, progress))
    /\ UNCHANGED <<loadState, snapshotReady, snapshotData, lastUpdateTime,
                   lastScrubProgress, now, followerZ, scrubStatus, scrubProgress,
                   frame, invocations,
                   rendered>>

CallPersonUpdate(person, progress, totalPeople) ==
    /\ call = NoCall
    /\ call' = [op |-> "Person.update", person |-> person, progress |-> progress,
                totalPeople |-> totalPeople]
    /\ ret' = Returned(Person_update(person, progress, totalPeople))
    /\ UNCHANGED <<loadState, snapshotReady, snapshotData, lastProgress,
                   currentSnapshot, people, lastUpdateTime, lastScrubProgress, now,
                   followerZ, scrubStatus, scrubProgress, frame, invocations,
                   rendered>>

CallGetDisplayData(person, progress, totalPeople) ==
    /\ call = NoCall
    /\ call' = [op |-> "Person.getDisplayData", person |-> person,
                progress |-> progress, totalPeople |-> totalPeople]
    /\ ret' = Returned(getDisplayData(person, progress, totalPeople))
    /\ UNCHANGED <<loadState, snapshotReady, snapshotData, lastProgress,
                   currentSnapshot, people, lastUpdateTime, lastScrubProgress, now,
                   followerZ, scrubStatus, scrubProgress, frame, invocations,
                   rendered>>

-----------------------------------------------------------------------------
(* Inputs of the model                                                     *)

\* A record of data_CDV.json: the ownership rate and the shares of the four
\* category axes.
Snapshot(rate, race, age, edu, job) ==
    [corp_own_rate |-> Num(rate),
     White |-> Num(race[1]), Asian |-> Num(race[2]), Black |-> Num(race[3]),
     Hispanic |-> Num(race[4]), Other |-> Num(race[5]),
     Age_0_19 |-> Num(age[1]), Age_20_34 |-> Num(age[2]),
     Age_35_54 |-> Num(age[3]), Age_55_plus |-> Num(age[4]),
     Edu_Below_High_School |-> Num(edu[1]), Edu_High_School |-> Num(edu[2]),
     Edu_Some_College |-> Num(edu[3]), Edu_Bachelor_or_Above |-> Num(edu[4]),
     Job_Technology |-> Num(job[1]), Job_Corporate |-> Num(job[2]),
     Job_Healthcare |-> Num(job[3]), Job_Construction |-> Num(job[4]),
     Job_Hospitality |-> Num(job[5]), Job_Repair_Tech |-> Num(job[6])]

SnapLow ==
    Snapshot(10, <<40, 20, 20, 10, 10>>, <<25, 25, 25, 25>>, <<10, 30, 30, 30>>,
             <<10, 10, 20, 20, 20, 20>>)
SnapLowTwin ==
    Snapshot(10, <<20, 40, 20, 10, 10>>, <<40, 20, 20, 20>>, <<30, 30, 30, 10>>,
             <<20, 20, 20, 20, 10, 10>>)
SnapMid ==
    Snapshot(30, <<70, 10, 10, 5, 5>>, <<10, 30, 30, 30>>, <<0, 20, 20, 60>>,
             <<40, 30, 10, 10, 5, 5>>)
SnapHigh ==
    Snapshot(50, <<100, 0, 0, 0, 0>>, <<0, 50, 25, 25>>, <<0, 0, 10, 90>>,
             <<60, 40, 0, 0, 0, 0>>)
SnapText == [SnapMid EXCEPT !.Asian = Str]

\* What data_CDV.json may hold: unsorted records, three records, a single
\* record, two records of one rate, no record, a record with a text field.
RawDatasets ==
    {<<SnapHigh, SnapLow>>, <<SnapLow, SnapMid, SnapHigh>>, <<SnapMid>>,
     <<SnapLow, SnapLowTwin, SnapHigh>>, <<>>, <<SnapLow, SnapText>>}

\* Small datasets of two-share records: rates 0..MaxRate, White one of Shares
\* and Asian the rest of 1, up to MaxSnapshots records in any order.
MaxRate == 2
MaxSnapshots == 3
Shares == {0, 1}

SmallSnapshots ==
    {[corp_own_rate |-> Num(r), White |-> Num(w), Asian |-> Num(1 - w)] :
        r \in 0..MaxRate, w \in Shares}

SmallDatasets == UNION {[1..n -> SmallSnapshots] : n \in 0..MaxSnapshots}

\* Progress values k/d with d up to ProgressGrid, one step beyond [0, 1]
\* on either side.
ProgressGrid == 3
Progresses == UNION {{Rat(k, d) : k \in (-1)..(d + 1)} : d \in 1..ProgressGrid}
UnitProgresses == {p \in Progresses : JLe(Num(0), p) /\ JLe(p, Num(1))}

\* Weight maps of up to MaxLabels labels with weights -1..MaxWeight, for
\* populations of up to MaxSampled people.
MaxLabels == 3
MaxWeight == 2
MaxSampled == 4
SampleLabels == <<"White", "Asian", "Black", "Hispanic", "Other">>
WeightMaps ==
    UNION {{[i \in 1..n |-> [key |-> SampleLabels[i], w |-> Num(ws[i])]] :
                ws \in [1..n -> (-1)..MaxWeight]} : n \in 0..MaxLabels}

\* Populations of 1..MaxAgents people and of the sizes of ExampleSizes; the
\* original and target categories a person may hold (they differ on some
\* axis), with a target job as update assigns one.
MaxAgents == 4
ExampleSizes == {10}
PopulationSizes == (1..MaxAgents) \cup ExampleSizes

OriginalCategories == {<<1, 0, 0>>, <<3, 2, 2>>}
TargetCategories == {<<0, 1, 2>>, <<2, 2, 1>>}

SamplePerson(index, original, target) ==
    [NewPerson(index, original[1], target[1], original[2], target[2],
               original[3], target[3])
        EXCEPT !.targetJobCategory = "Job_Technology"]

SamplePeople(totalPeople) ==
    {SamplePerson(index, original, target) :
        index \in 0..(totalPeople - 1), original \in OriginalCategories,
        target \in TargetCategories}

\* The progress values k / totalPeople, one step beyond [0, 1] on either
\* side, and 0.35.
ExampleProgresses == {Rat(35, 100)}
StaggerProgresses(totalPeople) ==
    {Rat(k, totalPeople) : k \in (-1)..(totalPeople + 1)} \cup ExampleProgresses

-----------------------------------------------------------------------------
(* Specifications                                                          *)

\* The program: the animation loop and the one load.
Next ==
    \/ \E camX \in CamXs, camZ \in CamZs, dt \in FrameTimes : Tick(camX, camZ, dt)
    \/ \E rawData \in RawDatasets, delay \in LoadDelays : LoadResolve(rawData, delay)
    \/ LoadReject

Spec == Init /\ [][Next]_vars

\* Constructions with the camera at the origin, for the specifications that
\* call single methods: one population where the people do not matter.
FixedPopulation ==
    InitPeople([i \in 1..TotalPeople |-> IF i % 2 = 1 THEN Rat(1, 4) ELSE Rat(3, 4)],
               [i \in 1..TotalPeople |-> i])

InitOne == Constructed(FixedPopulation, 0, 0, 120)

InitFixed ==
    \E population \in InitialPopulations : Constructed(population, 0, 0, 120)

\* The snapshot store under direct calls of getInterpolatedSnapshot.
NextInterp ==
    \/ \E rawData \in SmallDatasets, delay \in LoadDelays : LoadResolve(rawData, delay)
    \/ LoadReject
    \/ \E progress \in Progresses : CallGetInterpolatedSnapshot(progress)

SpecInterp == InitOne /\ [][NextInterp]_vars

\* The sampler under direct calls of getWeightedCategory.
NextSample ==
    \E weights \in WeightMaps, totalPeople \in 1..MaxSampled :
        \E personIndex \in 0..(totalPeople - 1) :
            CallGetWeightedCategory(weights, personIndex, totalPeople)

SpecSample == InitOne /\ [][NextSample]_vars

\* The recompute path under direct calls of update.
NextUpdate ==
    \/ \E rawData \in RawDatasets, delay \in LoadDelays : LoadResolve(rawData, delay)
    \/ LoadReject
    \/ \E progress \in Progresses : CallUpdate(progress)

SpecUpdate == InitFixed /\ [][NextUpdate]_vars

\* A person under direct calls of Person.update and Person.getDisplayData.
NextPerson ==
    \E totalPeople \in PopulationSizes :
        \E person \in SamplePeople(totalPeople),
           progress \in StaggerProgresses(totalPeople) :
            \/ CallPersonUpdate(person, progress, totalPeople)
            \/ CallGetDisplayData(person, progress, totalPeople)

SpecPerson == InitOne /\ [][NextPerson]_vars

-----------------------------------------------------------------------------
(* Properties                                                              *)

Targets(person) ==
    <<person.targetRace, person.targetAgeIndex, person.targetEducationLevel,
      person.targetJobCategory>>

AllTargets(population) == [i \in DOMAIN population |-> Targets(population[i])]

Rate(snapshot) == snapshot["corp_own_rate"]

IsInterpolationCall == call.op = "getInterpolatedSnapshot" /\ ret.kind = "value"

InUnit(progress) == JLe(Num(0), progress) /\ JLe(progress, Num(1))

\* C1: until the load has completed, getInterpolatedSnapshot returns null for
\* every progress and a step of the engine (in particular a frame that calls
\* update) leaves lastProgress, currentSnapshot and every person's targets
\* unchanged.
C1_NotReadyIsNoOp ==
    /\ [](loadState # "resolved" =>
            \A progress \in Progresses :
                getInterpolatedSnapshot(snapshotReady, snapshotData, progress) = Null)
    /\ [][loadState' # "resolved" =>
            /\ lastProgress' = lastProgress
            /\ currentSnapshot' = currentSnapshot
            /\ AllTargets(people') = AllTargets(people)]_vars

\* A frame after the constructor's has just called update (it passed the
\* throttle) while the load was pending.
C1_Witness ==
    /\ loadState = "pending"
    /\ frame >= 2
    /\ lastScrubProgress # Null
    /\ lastUpdateTime = now
    /\ currentSnapshot = Null

\* The bracket of C2: i is the first adjacent pair with
\* rate[i] <= targetRate <= rate[i+1].
IsFirstBracket(i, targetRate) ==
    /\ JLe(Rate(snapshotData[i]), targetRate)
    /\ JLe(targetRate, Rate(snapshotData[i + 1]))
    /\ \A j \in 1..(i - 1) :
            ~(JLe(Rate(snapshotData[j]), targetRate)
              /\ JLe(targetRate, Rate(snapshotData[j + 1])))

\* (x - lo) * (hiRate - loRate) = (targetRate - loRate) * (hi - lo): x is the
\* linear interpolation of lo and hi at targetRate, without a division.
IsLinear(x, lo, hi, loRate, hiRate, targetRate) ==
    JMul(JSub(x, lo), JSub(hiRate, loRate)) = JMul(JSub(targetRate, loRate), JSub(hi, lo))

ExampleData ==
    <<[corp_own_rate |-> Num(0), White |-> Num(1), Asian |-> Num(0)],
      [corp_own_rate |-> Num(1), White |-> Num(0), Asian |-> Num(1)]>>

IsExampleCall ==
    /\ IsInterpolationCall
    /\ snapshotData = ExampleData
    /\ call.progress = Rat(1, 2)

\* C2: for a loaded dataset of two or more snapshots and a progress in [0, 1],
\* the result's rate is min + progress * (max - min), a first bracketing pair
\* exists, and when its rates differ every other field of the result is the
\* linear interpolation of the pair's fields at that rate; the example
\* {0, 1, 0}, {1, 0, 1} at progress 1/2 gives {1/2, 1/2, 1/2}.
C2_LinearInterpolation ==
    /\ (IsInterpolationCall /\ InUnit(call.progress) /\ Len(snapshotData) >= 2) =>
         LET first == Rate(snapshotData[1])
             last == Rate(snapshotData[Len(snapshotData)])
             targetRate == JAdd(first, JMul(call.progress, JSub(last, first)))
         IN  /\ Rate(ret.v) = targetRate
             /\ \E i \in 1..(Len(snapshotData) - 1) :
                    /\ IsFirstBracket(i, targetRate)
                    /\ DOMAIN ret.v = DOMAIN snapshotData[i]
                    /\ Rate(snapshotData[i]) # Rate(snapshotData[i + 1]) =>
                         \A field \in DOMAIN snapshotData[i] \ {"corp_own_rate"} :
                            /\ IsFinite(ret.v[field])
                            /\ IsLinear(ret.v[field], snapshotData[i][field],
                                        snapshotData[i + 1][field],
                                        Rate(snapshotData[i]),
                                        Rate(snapshotData[i + 1]), targetRate)
    /\ IsExampleCall =>
         ret.v = [corp_own_rate |-> Rat(1, 2), White |-> Rat(1, 2), Asian |-> Rat(1, 2)]

C2_Witness == IsExampleCall

\* C3: for a loaded dataset and progress in [0, 1], the rate of the result
\* does not decrease when progress grows, is the least rate of the dataset at
\* progress 0 and the greatest at progress 1.
C3_RateMonotonic ==
    (IsInterpolationCall /\ InUnit(call.progress)) =>
        /\ \A later \in UnitProgresses :
              JLe(call.progress, later) =>
                 JLe(Rate(ret.v),
                     Rate(getInterpolatedSnapshot(snapshotReady, snapshotData, later).v))
        /\ call.progress = Num(0) =>
              /\ \E i \in DOMAIN snapshotData : Rate(ret.v) = Rate(snapshotData[i])
              /\ \A i \in DOMAIN snapshotData : JLe(Rate(ret.v), Rate(snapshotData[i]))
        /\ call.progress = Num(1) =>
              /\ \E i \in DOMAIN snapshotData : Rate(ret.v) = Rate(snapshotData[i])
              /\ \A i \in DOMAIN snapshotData : JLe(Rate(snapshotData[i]), Rate(ret.v))

\* A call at progress 1 on a dataset that was loaded unsorted and whose rates
\* differ.
C3_Witness ==
    /\ IsInterpolationCall
    /\ call.progress = Num(1)
    /\ Len(snapshotData) = 3
    /\ Rate(snapshotData[1]) # Rate(snapshotData[3])
    /\ Rate(ret.v) = Rate(snapshotData[3])

\* C4: when the two snapshots the interpolation uses have equal rates (equal
\* rates in the dataset, or a single record), t is taken as 0: the result is
\* the lower snapshot unchanged and no field is NaN or undefined.
C4_EqualRatesGuarded ==
    IsInterpolationCall =>
        LET targetRate == TargetRate(snapshotData, call.progress)
            lower == LowerSnapshot(snapshotData, targetRate)
            upper == UpperSnapshot(snapshotData, targetRate)
        IN  Rate(lower) = Rate(upper) =>
                /\ ret.v = lower
                /\ \A field \in DOMAIN ret.v : IsFinite(ret.v[field])

IsMalformed(data) ==
    \/ Len(data) = 0
    \/ \E i \in DOMAIN data : \E field \in DOMAIN data[i] : ~IsFinite(data[i][field])

\* C5: a load of a malformed dataset (no record, or a non-numeric field) is
\* rejected and leaves the store not ready; after a load that succeeded
\* getInterpolatedSnapshot returns a record for every progress.
C5_MalformedRejected ==
    /\ (loadState # "pending" /\ IsMalformed(snapshotData)) =>
            loadState = "rejected" /\ ~snapshotReady
    /\ loadState = "resolved" =>
            \A progress \in Progresses :
                getInterpolatedSnapshot(snapshotReady, snapshotData, progress) # Null

IsSampleCall == call.op = "getWeightedCategory"

\* The sum of the first k weights of a map of whole-number weights.
RECURSIVE PartialWeight(_, _)
PartialWeight(weights, k) ==
    IF k = 0 THEN 0 ELSE PartialWeight(weights, k - 1) + weights[k].w.n

\* The cumulative normalised weight of the first k labels is >= u =
\* (personIndex + 1) / (totalPeople + 1), in whole numbers: the comparison is
\* multiplied out when the total is not 0; with total 0 the weights divided
\* by it are infinite or NaN and only a sum of +Infinity is >= u.
ReachesU(weights, k, personIndex, totalPeople) ==
    LET total == PartialWeight(weights, Len(weights))
        part == PartialWeight(weights, k)
    IN  IF total > 0 THEN part * (totalPeople + 1) >= (personIndex + 1) * total
        ELSE IF total < 0 THEN part * (totalPeople + 1) =< (personIndex + 1) * total
        ELSE \A j \in 1..k : weights[j].w.n > 0

IsBoundaryCall ==
    /\ IsSampleCall
    /\ call.weights = <<[key |-> "White", w |-> Num(1)], [key |-> "Asian", w |-> Num(1)]>>
    /\ call.personIndex = 0
    /\ call.totalPeople = 1

\* C6: for a weight map with a label, getWeightedCategory returns the first
\* label in declaration order whose cumulative normalised weight is >= u, and
\* the last label when none is; the boundary call ({White: 1, Asian: 1}, 0, 1),
\* where u = 1/2 equals the first threshold, returns the first label.
C6_FirstLabelReachingU ==
    /\ (IsSampleCall /\ Len(call.weights) > 0) =>
         LET reaching == {k \in 1..Len(call.weights) :
                            ReachesU(call.weights, k, call.personIndex,
                                     call.totalPeople)}
         IN  /\ ret.kind = "value"
             /\ reaching = {} => ret.v = call.weights[Len(call.weights)].key
             /\ reaching # {} =>
                   \E k \in reaching :
                       /\ \A j \in reaching : k =< j
                       /\ ret.v = call.weights[k].key
    /\ IsBoundaryCall => ret = Returned("White")

C6_Witness == IsBoundaryCall /\ ret = Returned("White")

\* C7: for an empty weight map, or one whose weights are all <= 0, the call
\* raises no error and returns the first declared label.
C7_DegenerateGivesFirstLabel ==
    (IsSampleCall /\ \A k \in DOMAIN call.weights : call.weights[k].w.n =< 0) =>
        /\ ret.kind = "value"
        /\ Len(call.weights) > 0 => ret.v = call.weights[1].key

\* The position of a label in the declaration order of a weight map.
Position(weights, label) == CHOOSE k \in DOMAIN weights : weights[k].key = label

IsProperSampleCall ==
    /\ IsSampleCall
    /\ \A k \in DOMAIN call.weights : call.weights[k].w.n >= 0
    /\ PartialWeight(call.weights, Len(call.weights)) > 0

\* C8: for non-negative weights with a positive total, every person of a
\* greater index gets a label at the same or a later position of the
\* declaration order.
C8_MonotonicSweep ==
    IsProperSampleCall =>
        /\ ret.kind = "value"
        /\ \A later \in call.personIndex..(call.totalPeople - 1) :
              Position(call.weights, ret.v) =<
                Position(call.weights,
                         getWeightedCategory(call.weights, later, call.totalPeople).v)

\* The first person gets the first label and the last person of the same
\* population the third.
C8_Witness ==
    /\ IsProperSampleCall
    /\ call.personIndex = 0
    /\ Len(call.weights) = 3
    /\ ret = Returned(call.weights[1].key)
    /\ getWeightedCategory(call.weights, call.totalPeople - 1, call.totalPeople)
         = Returned(call.weights[3].key)

\* A freshly constructed engine over the loaded data.
FreshEngine ==
    [lastProgress |-> Num(0), currentSnapshot |-> Null, people |-> FixedPopulation]

HasData == snapshotReady /\ Len(snapshotData) > 0

\* C9: with the data loaded, the targets the people hold are those update
\* gives for lastProgress on a fresh engine, and for every progress a further
\* update gives every person the targets it gives on a fresh engine: the
\* targets of update(p) do not depend on the updates made before.
C9_RecomputeDeterministic ==
    HasData =>
        /\ currentSnapshot # Null
        /\ AllTargets(people) =
             AllTargets(update(FreshEngine, snapshotReady, snapshotData,
                               lastProgress).people)
        /\ \A progress \in Progresses :
              AllTargets(update(EngineState, snapshotReady, snapshotData,
                                progress).people)
                = AllTargets(update(FreshEngine, snapshotReady, snapshotData,
                                    progress).people)

\* update(1/2) has run on data for which the targets at progress 0, which the
\* load callback assigned before, are other targets.
C9_Witness ==
    /\ HasData
    /\ call.op = "update"
    /\ call.progress = Rat(1, 2)
    /\ lastProgress = Rat(1, 2)
    /\ AllTargets(people) #
         AllTargets(update(FreshEngine, snapshotReady, snapshotData, Num(0)).people)

\* progress >= index / totalPeople, multiplied out.
HasSwitched(person, progress) ==
    progress.n * TotalPeople >= person.index * progress.d

\* The job a person shows at construction, before any recompute.
OriginalJob == JobDisplay(NoJob)

MeshShowsSwitch(person, progress) ==
    LET switched == HasSwitched(person, progress)
    IN  /\ person.meshColor =
             raceColors[(IF switched THEN person.targetRace
                         ELSE person.originalRace) + 1]
        /\ person.meshHeight =
             ageHeights[(IF switched THEN person.targetAgeIndex
                         ELSE person.ageIndex) + 1]
        /\ person.eduMeshLevel =
             (IF switched THEN person.targetEducationLevel
              ELSE person.educationLevel)

DataShowsSwitch(person, progress) ==
    LET switched == HasSwitched(person, progress)
        data == getDisplayData(person, progress, TotalPeople)
    IN  /\ data.race =
             raceLabels[(IF switched THEN person.targetRace
                         ELSE person.originalRace) + 1]
        /\ data.age =
             ageLabels[(IF switched THEN person.targetAgeIndex
                        ELSE person.ageIndex) + 1]
        /\ data.education =
             eduLabels[(IF switched THEN person.targetEducationLevel
                        ELSE person.educationLevel) + 1]

\* The three axes that have an original value: after a recompute at progress p
\* every person's mesh shows the target race, age and education if
\* p >= index / totalPeople and the original ones otherwise, and so does
\* getDisplayData for every progress; the job shown is the target job whether
\* or not the person has switched.
HardSwitchThreeAxes ==
    currentSnapshot # Null =>
        \A i \in DOMAIN people :
            /\ MeshShowsSwitch(people[i], lastProgress)
            /\ \A progress \in Progresses :
                  /\ DataShowsSwitch(people[i], progress)
                  /\ getDisplayData(people[i], progress, TotalPeople).job
                       = JobDisplay(people[i].targetJobCategory)

\* C10: after a recompute, on each of the four axes (race, age, education,
\* job) a person shows the target value if progress >= index / totalPeople and
\* the original value otherwise; the original job is the one the person shows
\* at construction.
C10_HardSwitchAllAxes ==
    currentSnapshot # Null =>
        \A i \in DOMAIN people :
            /\ MeshShowsSwitch(people[i], lastProgress)
            /\ \A progress \in Progresses :
                  /\ DataShowsSwitch(people[i], progress)
                  /\ getDisplayData(people[i], progress, TotalPeople).job
                       = (IF HasSwitched(people[i], progress)
                          THEN JobDisplay(people[i].targetJobCategory)
                          ELSE OriginalJob)

IsPersonCall == call.op \in {"Person.update", "Person.getDisplayData"}

\* What a person shows on the three axes that have an original value: the
\* colour, height and education sprite Person.update leaves on the meshes,
\* or the race, age and education labels of getDisplayData.
DisplayOf(op, person, progress, totalPeople) ==
    IF op = "Person.update"
    THEN LET after == Person_update(person, progress, totalPeople)
         IN  <<after.meshColor, after.meshHeight, after.eduMeshLevel>>
    ELSE LET data == getDisplayData(person, progress, totalPeople)
         IN  <<data.race, data.age, data.education>>

Displayed ==
    IF call.op = "Person.update"
    THEN <<ret.v.meshColor, ret.v.meshHeight, ret.v.eduMeshLevel>>
    ELSE <<ret.v.race, ret.v.age, ret.v.education>>

TargetDisplay(op, person) ==
    IF op = "Person.update"
    THEN <<raceColors[person.targetRace + 1], ageHeights[person.targetAgeIndex + 1],
           person.targetEducationLevel>>
    ELSE <<raceLabels[person.targetRace + 1], ageLabels[person.targetAgeIndex + 1],
           eduLabels[person.targetEducationLevel + 1]>>

OriginalDisplay(op, person) ==
    IF op = "Person.update"
    THEN <<raceColors[person.originalRace + 1], ageHeights[person.ageIndex + 1],
           person.educationLevel>>
    ELSE <<raceLabels[person.originalRace + 1], ageLabels[person.ageIndex + 1],
           eduLabels[person.educationLevel + 1]>>

ShowsTarget == Displayed = TargetDisplay(call.op, call.person)
ShowsOriginal == Displayed = OriginalDisplay(call.op, call.person)

\* The call is made at progress k / totalPeople.
IsStaggerCall(k) == IsPersonCall /\ call.progress = Rat(k, call.totalPeople)

\* C11 as amended: at progress k / N (k in 0..N) exactly the people with
\* index <= k show their target race, age and education, and the people with
\* index > k show their original ones.
C11_StaggerThroughK ==
    IsPersonCall =>
        \A k \in 0..call.totalPeople :
            IsStaggerCall(k) =>
                IF call.person.index =< k THEN ShowsTarget /\ ~ShowsOriginal
                ELSE ShowsOriginal /\ ~ShowsTarget

\* C11 as stated: at progress k / N exactly the people with index < k show
\* their target state and the people with index >= k their original state.
C11_StaggerBelowK ==
    IsPersonCall =>
        \A k \in 0..call.totalPeople :
            IsStaggerCall(k) =>
                IF call.person.index < k THEN ShowsTarget /\ ~ShowsOriginal
                ELSE ShowsOriginal /\ ~ShowsTarget

\* Person.update at progress k / N on the person of index k, which shows its
\* target state, and k is neither 0 nor the last index.
C11_Witness ==
    /\ call.op = "Person.update"
    /\ call.totalPeople = 3
    /\ call.person.index = 1
    /\ IsStaggerCall(1)
    /\ ShowsTarget

IsExampleStagger ==
    IsPersonCall /\ call.totalPeople = 10 /\ call.progress = Rat(35, 100)

\* C12 as amended: of 10 people at progress 0.35 exactly those with index 0,
\* 1, 2 and 3 show target state (the thresholds 0, 0.1, 0.2 and 0.3 are
\* <= 0.35) and those with index 4 through 9 original state.
C12_FourSwitchedAtExample ==
    IsExampleStagger =>
        IF call.person.index \in 0..3 THEN ShowsTarget /\ ~ShowsOriginal
        ELSE ShowsOriginal /\ ~ShowsTarget

\* C12 as stated: of 10 people at progress 0.35 exactly those with index 0, 1
\* and 2 show target state and those with index 3 through 9 original state.
C12_ThreeSwitchedAtExample ==
    IsExampleStagger =>
        IF call.person.index \in 0..2 THEN ShowsTarget /\ ~ShowsOriginal
        ELSE ShowsOriginal /\ ~ShowsTarget

\* The person of index 3 of 10 at progress 0.35.
C12_Witness ==
    /\ IsExampleStagger
    /\ call.person.index = 3
    /\ ShowsTarget

\* C13 as amended: at a progress below 0 every person, the first included,
\* shows its original state; at progress 0 the first person (threshold 0)
\* shows its target state and every other person its original state.
C13_NegativeShowsOriginals ==
    IsPersonCall =>
        /\ ~JLe(Num(0), call.progress) => ShowsOriginal /\ ~ShowsTarget
        /\ call.progress = Num(0) =>
              IF call.person.index = 0 THEN ShowsTarget /\ ~ShowsOriginal
              ELSE ShowsOriginal /\ ~ShowsTarget

\* C13 as stated: a progress below 0 shows what progress 0 shows, and at
\* progress 0 every person, the first included, shows its original state.
C13_NegativeShowsAsZero ==
    (IsPersonCall /\ ~JLe(Num(0), call.progress)) =>
        /\ Displayed = DisplayOf(call.op, call.person, Num(0), call.totalPeople)
        /\ DisplayOf(call.op, call.person, Num(0), call.totalPeople)
             = OriginalDisplay(call.op, call.person)

\* The first person at a progress below 0.
C13_Witness ==
    /\ IsPersonCall
    /\ call.person.index = 0
    /\ ~JLe(Num(0), call.progress)
    /\ ShowsOriginal

\* The person like call.person at another index.
AtIndex(index) == [call.person EXCEPT !.index = index]

Switched(index, progress) ==
    DisplayOf(call.op, AtIndex(index), progress, call.totalPeople)
        = TargetDisplay(call.op, AtIndex(index))

\* C14: when a person shows target state at a progress, every person of a
\* smaller index shows target state at that progress (in particular the
\* first), the person shows target state at every greater progress, and when
\* the last person shows target state every person does; the first person
\* switches at progress 0, where no other person has, and the last person has
\* not switched at any progress below (N - 1) / N.
C14_StaggeredWavefront ==
    IsPersonCall =>
        /\ ShowsTarget =>
              /\ \A i \in 0..call.person.index : Switched(i, call.progress)
              /\ \A later \in StaggerProgresses(call.totalPeople) :
                    JLe(call.progress, later) => Switched(call.person.index, later)
        /\ Switched(call.totalPeople - 1, call.progress) =>
              \A i \in 0..(call.totalPeople - 1) : Switched(i, call.progress)
        /\ call.progress = Num(0) => (ShowsTarget <=> call.person.index = 0)
        /\ (call.person.index = call.totalPeople - 1 /\ ShowsTarget) =>
              JGe(call.progress, Rat(call.totalPeople - 1, call.totalPeople))

\* A person in the middle of the population has switched at a progress at
\* which the last person has not.
C14_Witness ==
    /\ IsPersonCall
    /\ call.totalPeople = 4
    /\ call.person.index = 2
    /\ ShowsTarget
    /\ ~Switched(3, call.progress)

IsFrame == frame' = frame + 1

ByTick(j) == invocations[j].by = "tick"

\* |p - q| > 0.001
Differs(p, q) == JGt(JAbs(JSub(p, q)), Rat(1, 1000))

\* The invocations before the j-th that satisfy Test, latest first.
Latest(j, Test(_)) ==
    {i \in 1..(j - 1) : Test(i) /\ \A k \in (i + 1)..(j - 1) : ~Test(k)}

Ran(j) == invocations[j].ran

\* What the throttle of the tick loop does ensure: any two calls of update
\* by the tick loop are more than updateInterval apart, and the tick loop
\* calls it only with a progress that differs by more than 0.001 from the
\* progress of its own last call.
TickLoopThrottled ==
    \A j \in DOMAIN invocations :
        ByTick(j) =>
            /\ \A i \in 1..(j - 1) :
                  ByTick(i) => invocations[j].at - invocations[i].at > updateInterval
            /\ \A i \in Latest(j, ByTick) :
                  Differs(invocations[j].progress, invocations[i].progress)

\* C15: any two calls of update are more than updateInterval
\* apart, and the tick loop calls it only with a progress that differs by
\* more than 0.001 from the progress of the last recompute.
C15_EveryUpdateThrottled ==
    \A j \in DOMAIN invocations :
        /\ \A i \in 1..(j - 1) :
              invocations[j].at - invocations[i].at > updateInterval
        /\ ByTick(j) =>
              \A i \in Latest(j, Ran) :
                  Differs(invocations[j].progress, invocations[i].progress)

Shown(person) == <<person.meshColor, person.meshHeight, person.eduMeshLevel>>

AllShown(population) == [i \in DOMAIN population |-> Shown(population[i])]

\* C16: a frame with the camera outside the corridor (it ends FROZEN) leaves
\* the follower where it is, calls no update and leaves lastProgress, the
\* current snapshot, the throttle fields and every person's targets and
\* displayed categories unchanged.
C16_FrozenFrameKeepsState ==
    [][(IsFrame /\ scrubStatus' = "FROZEN") =>
            /\ followerZ' = followerZ
            /\ invocations' = invocations
            /\ lastProgress' = lastProgress
            /\ currentSnapshot' = currentSnapshot
            /\ lastUpdateTime' = lastUpdateTime
            /\ lastScrubProgress' = lastScrubProgress
            /\ scrubProgress' = scrubProgress
            /\ AllTargets(people') = AllTargets(people)
            /\ AllShown(people') = AllShown(people)]_vars

\* A frozen frame after the follower has moved and a recompute has run.
C16_Witness ==
    /\ scrubStatus = "FROZEN"
    /\ followerZ # Num(0)
    /\ currentSnapshot # Null

\* The camera coordinates of the frames, brought into [zMin, zMax].
ClampedTargets ==
    {IF z < zMin THEN Num(zMin) ELSE IF z > zMax THEN Num(zMax) ELSE Num(z) :
        z \in CamZs}

\* after - before = (target - before) / 100
IsEased(before, after, target) ==
    JSub(after, before) = JMul(Rat(1, 100), JSub(target, before))

\* C17: a frame with the camera in the corridor (it ends ACTIVE) moves the
\* follower by a hundredth of its distance to the clamped camera coordinate:
\* not onto the coordinate and not beyond it, whether or not the frame called
\* update.
C17_FollowerEased ==
    [][(IsFrame /\ scrubStatus' = "ACTIVE") =>
            \E target \in ClampedTargets :
                /\ IsEased(followerZ, followerZ', target)
                /\ followerZ # target =>
                      /\ followerZ' # target
                      /\ followerZ' # followerZ
                      /\ JLe(followerZ, target) =>
                            JLe(followerZ, followerZ') /\ JLe(followerZ', target)
                      /\ JLe(target, followerZ) =>
                            JLe(target, followerZ') /\ JLe(followerZ', followerZ)]_vars

\* An ACTIVE frame that called no update (the last call is older than the
\* frame) has moved the follower.
C17_Witness ==
    /\ loadState = "pending"
    /\ scrubStatus = "ACTIVE"
    /\ frame >= 2
    /\ lastUpdateTime < now
    /\ followerZ # Num(0)

InUnitInterval(p) == JLe(Num(0), p) /\ JLe(p, Num(1))

\* C18: the follower stays within [zMin, zMax], every progress the tick loop
\* passes to update or shows lies in [0, 1], and a frame moves the follower
\* no further than towards zMin or zMax, wherever the camera is.
C18_ProgressInUnitInterval ==
    /\ [](/\ JLe(Num(zMin), followerZ) /\ JLe(followerZ, Num(zMax))
          /\ \A j \in DOMAIN invocations :
                ByTick(j) => InUnitInterval(invocations[j].progress)
          /\ lastScrubProgress # Null => InUnitInterval(lastScrubProgress.v)
          /\ scrubProgress # Null => InUnitInterval(scrubProgress.v))
    /\ [][IsFrame =>
            /\ JLe(JAdd(followerZ, JMul(Rat(1, 100), JSub(Num(zMin), followerZ))),
                   followerZ')
            /\ JLe(followerZ',
                   JAdd(followerZ, JMul(Rat(1, 100), JSub(Num(zMax), followerZ))))]_vars

\* The tick loop has passed update a progress other than 1/2: the follower
\* has moved towards a camera beyond zMin or zMax.
C18_Witness ==
    \E j \in DOMAIN invocations :
        /\ ByTick(j)
        /\ invocations[j].progress # Rat(1, 2)
        /\ followerZ # Num(0)

\* The vector after one more clustering step of the given strength.
Stepped(vector, strength) ==
    [x |-> vector.x, z |-> vector.z, steps |-> Append(vector.steps, strength)]

\* C19: every frame makes exactly one clustering step for every person, with
\* the strength of lastProgress as it is when the frame begins: each person
\* has made as many steps as there were frames, whatever the scrub status,
\* the throttle and the state of the load.
C19_OneStepPerFrame ==
    /\ [](\A i \in DOMAIN people :
            /\ Len(people[i].position2D.steps) = frame
            /\ Len(people[i].velocity.steps) = frame)
    /\ [][IsFrame =>
            \A i \in DOMAIN people :
                /\ people'[i].position2D
                     = Stepped(people[i].position2D, JMul(lastProgress, Rat(1, 10)))
                /\ people'[i].velocity
                     = Stepped(people[i].velocity, JMul(lastProgress, Rat(1, 10)))]_vars

\* Frames went on after the load failed, the last of them frozen.
C19_Witness ==
    /\ loadState = "rejected"
    /\ scrubStatus = "FROZEN"
    /\ frame >= 3
    /\ \A i \in DOMAIN people : Len(people[i].position2D.steps) = frame

IsPrefix(short, long) ==
    Len(short) =< Len(long) /\ SubSeq(long, 1, Len(short)) = short

\* C20: the load callback (a step that is no frame) leaves every person's
\* position2D and velocity unchanged, and a frame, whether or not it calls
\* update, changes them by appending one clustering step and nothing else.
C20_OnlyClusteringMoves ==
    [][\A i \in DOMAIN people :
          /\ ~IsFrame =>
                /\ people'[i].position2D = people[i].position2D
                /\ people'[i].velocity = people[i].velocity
          /\ IsFrame =>
                /\ people'[i].position2D.x = people[i].position2D.x
                /\ people'[i].position2D.z = people[i].position2D.z
                /\ IsPrefix(people[i].position2D.steps, people'[i].position2D.steps)
                /\ Len(people'[i].position2D.steps)
                     = Len(people[i].position2D.steps) + 1
                /\ people'[i].velocity.x = people[i].velocity.x
                /\ people'[i].velocity.z = people[i].velocity.z
                /\ IsPrefix(people[i].velocity.steps, people'[i].velocity.steps)
                /\ Len(people'[i].velocity.steps)
                     = Len(people[i].velocity.steps) + 1]_vars

\* The load callback and then a frame have each run a recompute.
C20_Witness ==
    \E i, j \in DOMAIN invocations :
        /\ i < j
        /\ invocations[i].by = "load" /\ Ran(i)
        /\ ByTick(j) /\ Ran(j)
        /\ invocations[j].at = now

-----------------------------------------------------------------------------
(* The colour scale of the map (src/unnamed/part_000)                      *)

\* getColor with inclusive comparisons.
getColor_Inclusive(rate) ==
    IF JGe(rate, Rat(1, 2)) THEN "#67001f"
    ELSE IF JGe(rate, Rat(2, 5)) THEN "#b2182b"
    ELSE IF JGe(rate, Rat(3, 10)) THEN "#d6604d"
    ELSE IF JGe(rate, Rat(1, 5)) THEN "#f4a582"
    ELSE IF JGe(rate, Rat(1, 10)) THEN "#fddbc7"
    ELSE "#f7f7f7"

\* rate > 0.5 ? '#67001f' : rate > 0.4 ? '#b2182b' : ... : '#f7f7f7'
getColor(rate) ==
    IF JGt(rate, Rat(1, 2)) THEN "#67001f"
    ELSE IF JGt(rate, Rat(2, 5)) THEN "#b2182b"
    ELSE IF JGt(rate, Rat(3, 10)) THEN "#d6604d"
    ELSE IF JGt(rate, Rat(1, 5)) THEN "#f4a582"
    ELSE IF JGt(rate, Rat(1, 10)) THEN "#fddbc7"
    ELSE "#f7f7f7"

CallGetColor(rate) ==
    /\ call = NoCall
    /\ call' = [op |-> "getColor", rate |-> rate]
    /\ ret' = Returned(getColor(rate))
    /\ UNCHANGED <<loadState, snapshotReady, snapshotData, lastProgress,
                   currentSnapshot, people, lastUpdateTime, lastScrubProgress, now,
                   followerZ, scrubStatus, scrubProgress, frame, invocations,
                   rendered>>

\* The rates getColor is called with: the multiples of 1/RateGrid from -1/5
\* to 1, and the values that are no finite number.
RateGrid == 100
Rates ==
    {Rat(k, RateGrid) : k \in (-(RateGrid \div 5))..RateGrid}
        \cup {NaN, Inf(1), Inf(-1), Undefined}

\* The colour scale under direct calls of getColor.
NextColor == \E rate \in Rates : CallGetColor(rate)

SpecColor == InitOne /\ [][NextColor]_vars

IsColorCall == call # NoCall /\ call.op = "getColor"

\* The colour of the finite rate n/d by the steps 0.1 .. 0.5, in whole numbers.
StepColor(n, d) ==
    IF 10 * n =< d THEN "#f7f7f7"
    ELSE IF 5 * n =< d THEN "#fddbc7"
    ELSE IF 10 * n =< 3 * d THEN "#f4a582"
    ELSE IF 5 * n =< 2 * d THEN "#d6604d"
    ELSE IF 2 * n =< d THEN "#b2182b"
    ELSE "#67001f"

\* C24: for a finite rate getColor returns '#f7f7f7' when rate <= 0.1,
\* '#fddbc7' when 0.1 < rate <= 0.2, '#f4a582' when 0.2 < rate <= 0.3,
\* '#d6604d' when 0.3 < rate <= 0.4, '#b2182b' when 0.4 < rate <= 0.5 and
\* '#67001f' when rate > 0.5.
C24_ColorSteps ==
    (IsColorCall /\ IsFinite(call.rate)) =>
        ret = Returned(StepColor(call.rate.n, call.rate.d))

\* getColor was called with a rate on a step.
C24_Witness ==
    /\ IsColorCall
    /\ call.rate = Rat(3, 10)
    /\ ret = Returned("#f4a582")

-----------------------------------------------------------------------------
(* The sampler on maps with weights of 0                                   *)

IsProperWeights(weights) ==
    /\ \A k \in DOMAIN weights : weights[k].w.n >= 0
    /\ \E k \in DOMAIN weights : weights[k].w.n > 0

\* C30: for a weight map with no negative weight and a positive one,
\* getWeightedCategory returns a label, and never one whose weight is 0.
C30_NeverZeroWeightLabel ==
    (IsSampleCall /\ IsProperWeights(call.weights)) =>
        /\ ret.kind = "value"
        /\ \E k \in DOMAIN call.weights :
              call.weights[k].key = ret.v /\ call.weights[k].w.n > 0

\* A call that passed over a first label of weight 0.
C30_Witness ==
    /\ IsSampleCall
    /\ IsProperWeights(call.weights)
    /\ call.weights[1].w = Num(0)
    /\ call.personIndex = 0
    /\ ret.kind = "value"
    /\ ret.v # call.weights[1].key

-----------------------------------------------------------------------------
(* What the renderer reads                                                 *)

\* The people after one clustering step of each with the given strength.
AllStepped(population, strength) ==
    [i \in DOMAIN population |->
        [population[i] EXCEPT !.position2D = Stepped(@, strength),
                              !.velocity = Stepped(@, strength)]]

\* The people a completed call of update(progress) leaves.
Recomputed(population, progress) ==
    update([lastProgress |-> lastProgress, currentSnapshot |-> currentSnapshot,
            people |-> population], snapshotReady, snapshotData, progress).people

\* C23: the render call of a frame reads the people as they are after the
\* clustering step of every one of them and, when the frame calls update,
\* after that call has returned: it reads the state the frame ends with, in
\* which every person has made this frame's step.
C23_RenderAfterWholeTick ==
    [][IsFrame =>
          /\ rendered' = people'
          /\ \A i \in DOMAIN rendered' :
                /\ Len(rendered'[i].position2D.steps) = frame'
                /\ Len(rendered'[i].velocity.steps) = frame'
          /\ rendered' =
                IF invocations' # invocations
                THEN Recomputed(AllStepped(people, JMul(lastProgress, Rat(1, 10))),
                                invocations'[Len(invocations')].progress)
                ELSE AllStepped(people, JMul(lastProgress, Rat(1, 10)))]_vars

\* The frame just rendered called update on loaded data, and a person shows
\* a target race that is not its original one.
C23_Witness ==
    /\ invocations # <<>>
    /\ ByTick(Len(invocations))
    /\ Ran(Len(invocations))
    /\ invocations[Len(invocations)].at = now
    /\ \E i \in DOMAIN rendered :
          /\ rendered[i].meshColor = raceColors[rendered[i].targetRace + 1]
          /\ rendered[i].targetRace # rendered[i].originalRace

-----------------------------------------------------------------------------
(* The order of clustering and recompute within a frame                    *)

\* The progress the clustering step would read if the frame's call of update
\* had run before it: the one update has just stored, when it stored one.
ProgressAfterRecompute(entry) == IF entry.ran THEN entry.progress ELSE lastProgress

\* C27: in a frame that calls update, the positions and velocities at the
\* end of the frame are those that the recompute followed by the clustering
\* step would give.
C27_OrderIndependent ==
    [][(IsFrame /\ invocations' # invocations) =>
          \A i \in DOMAIN people :
              /\ people'[i].position2D
                   = Stepped(people[i].position2D,
                             JMul(ProgressAfterRecompute(invocations'[Len(invocations')]),
                                  Rat(1, 10)))
              /\ people'[i].velocity
                   = Stepped(people[i].velocity,
                             JMul(ProgressAfterRecompute(invocations'[Len(invocations')]),
                                  Rat(1, 10)))]_vars

-----------------------------------------------------------------------------
(* The animation loop without an end, with the camera at rest              *)

\* The z of the camera rig as it is created; the camera may still step out
\* of the corridor and back (CamXs).
RestZ == 0

Max(a, b) == IF a > b THEN a ELSE b

\* The people of after with the positions and velocities of before.
Unstepped(after, before) ==
    [i \in DOMAIN after |->
        [after[i] EXCEPT !.position2D = before[i].position2D,
                         !.velocity = before[i].velocity]]

\* The number of the frame after frame f: frames beyond MaxFrames are told
\* apart only as odd and even.
FrameAfter(f) ==
    IF f < MaxFrames THEN f + 1 ELSE IF f = MaxFrames THEN MaxFrames + 1 ELSE MaxFrames

\* A frame of a loop that never ends.  Up to MaxFrames frames are counted as
\* in Tick.  Of the frames after them the step lists of the people are not
\* extended, and the clock is read relative to the frame: now stays and
\* lastUpdateTime moves back by dt instead, down to updateInterval + 1 before
\* now, which is as far as the throttle can tell.
LiveEndsAs(st, dt) ==
    /\ lastProgress' = st.lastProgress
    /\ currentSnapshot' = st.currentSnapshot
    /\ lastScrubProgress' = st.lastScrubProgress
    /\ followerZ' = st.followerZ
    /\ scrubStatus' = st.scrubStatus
    /\ scrubProgress' = st.scrubProgress
    /\ invocations' = st.invocations
    /\ frame' = FrameAfter(frame)
    /\ IF frame < MaxFrames
       THEN /\ people' = st.people
            /\ rendered' = st.rendered
            /\ now' = st.now
            /\ lastUpdateTime' = st.lastUpdateTime
       ELSE /\ people' = Unstepped(st.people, people)
            /\ rendered' = Unstepped(st.rendered, people)
            /\ now' = now
            /\ lastUpdateTime' = Max(st.lastUpdateTime - dt, now - (updateInterval + 1))

LiveTick(camX, dt) ==
    /\ LiveEndsAs(Animate(Current, camX, RestZ, now + dt), dt)
    /\ UNCHANGED <<loadState, snapshotReady, snapshotData, call, ret>>

LiveFrame == \E camX \in CamXs, dt \in FrameTimes : LiveTick(camX, dt)

NextLive ==
    \/ LiveFrame
    \/ \E rawData \in RawDatasets, delay \in LoadDelays : LoadResolve(rawData, delay)
    \/ LoadReject

\* A frame has been counted.  Every frame counts one, and among the steps
\* of NextLive only a frame changes the frame number.
FrameCounted == frame' = FrameAfter(frame)

\* renderer.setAnimationLoop calls _animate again for every frame: the loop
\* does not stop, so frames go on being counted.
SpecLive == Init /\ [][NextLive]_vars /\ WF_frame(FrameCounted)

\* The data has loaded, the scrub is ACTIVE, a recompute with the adapter's
\* progress would find a snapshot, and that progress differs by more than
\* 0.001 from the progress last applied to the people.
Stale ==
    /\ loadState = "resolved"
    /\ scrubStatus = "ACTIVE"
    /\ scrubProgress # Null
    /\ getInterpolatedSnapshot(snapshotReady, snapshotData, scrubProgress.v).some
    /\ Differs(scrubProgress.v, lastProgress)

\* C28: the displayed state does not stay stale forever: whenever the data
\* has loaded, the scrub is ACTIVE and the adapter's progress differs from
\* lastProgress by more than 0.001, a later recompute applies the adapter's
\* progress (or the scrub stops being ACTIVE).
C28_NoLastingStaleness == []<>(~Stale)

-----------------------------------------------------------------------------
(* The clustering step in exact arithmetic                                 *)
(*                                                                         *)
(* The engine above keeps positions as lists of steps.  Here they are      *)
(* THREE.Vector2 values with rational components, and the people stand on  *)
(* a line through the cluster centre whose direction has rational          *)
(* cosines: every vector of a step then lies along that line and its       *)
(* length is rational.                                                     *)

\* config.clustering
centerAttraction == Rat(1, 1000)
minSeparation == 2
attractionStrength == Rat(1, 4)
repulsionStrength == Rat(1, 4)
damping == Rat(11, 20)

\* THREE.Vector2
V2(x, y) == [x |-> x, y |-> y]
VAdd(a, b) == V2(JAdd(a.x, b.x), JAdd(a.y, b.y))
VSub(a, b) == V2(JSub(a.x, b.x), JSub(a.y, b.y))
VScale(v, s) == V2(JMul(v.x, s), JMul(v.y, s))
VNeg(v) == V2(JNeg(v.x), JNeg(v.y))

JLt(a, b) == JGt(b, a)

\* The largest whole r in lo..hi with r * r <= n.
RECURSIVE RootBetween(_, _, _)
RootBetween(n, lo, hi) ==
    IF lo = hi THEN lo
    ELSE IF ((lo + hi + 1) \div 2) * ((lo + hi + 1) \div 2) =< n
         THEN RootBetween(n, (lo + hi + 1) \div 2, hi)
         ELSE RootBetween(n, lo, ((lo + hi + 1) \div 2) - 1)

Root(n) == RootBetween(n, 0, 46340)

\* Math.sqrt of a finite number that is the square of a rational (the model
\* has no value for another root, and there is none on the lines it uses).
JSqrt(x) ==
    IF x.n < 0 THEN NaN
    ELSE CHOOSE q \in {Rat(Root(x.n), Root(x.d))} : JMul(q, q) = x

\* |x| * sqrt(1 + (y/x)^2) for x # 0
LengthBy(x, ratio) == JMul(JAbs(x), JSqrt(JAdd(Num(1), JMul(ratio, ratio))))

\* Vector2.length(): Math.sqrt(x * x + y * y), computed without squaring the
\* components themselves.
VLength(v) ==
    IF v.y.n = 0 THEN JAbs(v.x)
    ELSE IF v.x.n = 0 THEN JAbs(v.y)
    ELSE LengthBy(v.x, JDiv(v.y, v.x))

\* x || 1
OrOne(x) == IF x.k = "num" /\ x.n = 0 THEN Num(1) ELSE x

\* Vector2.normalize(): divideScalar(this.length() || 1), and
\* divideScalar(s) is multiplyScalar(1 / s).
VNormalize(v) == VScale(v, JDiv(Num(1), OrOne(VLength(v))))

\* const distSq = dist * dist + 0.01
DistSq(dist) == JAdd(JMul(dist, dist), Rat(1, 100))

\* PairTerm without the continue of the separation branch.
PairTerm_NoContinue(self, other, strength, dir, dist) ==
    VAdd(IF JLt(dist, Num(minSeparation))
         THEN VNeg(VScale(dir, JMul(Rat(1, 10), JSub(Num(minSeparation), dist))))
         ELSE V2(Num(0), Num(0)),
         IF other.originalRace = self.originalRace
         THEN VScale(dir, JDiv(JMul(attractionStrength, strength), DistSq(dist)))
         ELSE VNeg(VScale(dir, JDiv(JMul(repulsionStrength, strength), DistSq(dist)))))

\* PairTerm comparing the target races.
PairTerm_ByTarget(self, other, strength, dir, dist) ==
    IF JLt(dist, Num(minSeparation))
    THEN VNeg(VScale(dir, JMul(Rat(1, 10), JSub(Num(minSeparation), dist))))
    ELSE IF other.targetRace = self.targetRace
         THEN VScale(dir, JDiv(JMul(attractionStrength, strength), DistSq(dist)))
         ELSE VNeg(VScale(dir, JDiv(JMul(repulsionStrength, strength), DistSq(dist))))

\* What one other person adds to the force (the body of the for loop):
\* force.sub(dir * 0.1 * (minSeparation - dist)) and continue when
\* dist < minSeparation; otherwise force.add(dir * attractionStrength *
\* strength / distSq) for the same original race and force.sub(dir *
\* repulsionStrength * strength / distSq) for another.
PairTerm(self, other, strength, dir, dist) ==
    IF JLt(dist, Num(minSeparation))
    THEN VNeg(VScale(dir, JMul(Rat(1, 10), JSub(Num(minSeparation), dist))))
    ELSE IF other.originalRace = self.originalRace
         THEN VScale(dir, JDiv(JMul(attractionStrength, strength), DistSq(dist)))
         ELSE VNeg(VScale(dir, JDiv(JMul(repulsionStrength, strength), DistSq(dist))))

\* delta = other.position2D.clone().sub(pos), dist = delta.length(),
\* dir = delta.normalize()
PairForce(self, other, strength) ==
    PairTerm(self, other, strength,
             VNormalize(VSub(other.position2D, self.position2D)),
             VLength(VSub(other.position2D, self.position2D)))

\* The force of the first n people on person i (for (const other of
\* this.viz.people) { if (other === this) continue; ... }).
RECURSIVE PairForces(_, _, _, _)
PairForces(population, i, strength, n) ==
    IF n = 0 THEN V2(Num(0), Num(0))
    ELSE IF n = i THEN PairForces(population, i, strength, n - 1)
    ELSE VAdd(PairForces(population, i, strength, n - 1),
              PairForce(population[i], population[n], strength))

\* force.add(toCenter.multiplyScalar(cfg.centerAttraction))
CenterForce(person) ==
    VScale(VSub(V2(Num(clusterCenterX), Num(clusterCenterZ)), person.position2D),
           centerAttraction)

\* The force on person i at the end of the loop and the centre term.
Force(population, i, progress) ==
    VAdd(PairForces(population, i, Strength(progress), Len(population)),
         CenterForce(population[i]))

\* vel.add(force); vel.multiplyScalar(cfg.damping)
NewVelocity(person, force) == VScale(VAdd(person.velocity, force), damping)

\* pos.add(vel)
Moved(person, force) ==
    [person EXCEPT !.velocity = NewVelocity(person, force),
                   !.position2D = VAdd(@, NewVelocity(person, force))]

\* people[i].applyClusteringForce(progress): the people after the call.
ClusteringStep(population, i, progress) ==
    [population EXCEPT ![i] = Moved(@, Force(population, i, progress))]

\* ClusterEach with every force taken from the positions before the loop.
ClusterEach_FromSnapshot(population, progress, n) ==
    [j \in 1..Len(population) |->
        IF j =< n THEN Moved(population[j], Force(population, j, progress))
        ELSE population[j]]

\* this.people.forEach(p => p.applyClusteringForce(progress)): the people
\* after the calls for the first n of them, in the order of the array.
RECURSIVE ClusterEach(_, _, _)
ClusterEach(population, progress, n) ==
    IF n = 0 THEN population
    ELSE ClusteringStep(ClusterEach(population, progress, n - 1), n, progress)

CallApplyClusteringForce(population, i, progress) ==
    /\ call = NoCall
    /\ call' = [op |-> "applyClusteringForce", people |-> population, index |-> i,
                progress |-> progress]
    /\ ret' = Returned(ClusteringStep(population, i, progress))
    /\ UNCHANGED <<loadState, snapshotReady, snapshotData, lastProgress,
                   currentSnapshot, people, lastUpdateTime, lastScrubProgress, now,
                   followerZ, scrubStatus, scrubProgress, frame, invocations,
                   rendered>>

CallClusterEach(population, progress) ==
    /\ call = NoCall
    /\ call' = [op |-> "forEach", people |-> population, progress |-> progress]
    /\ ret' = Returned(ClusterEach(population, progress, Len(population)))
    /\ UNCHANGED <<loadState, snapshotReady, snapshotData, lastProgress,
                   currentSnapshot, people, lastUpdateTime, lastScrubProgress, now,
                   followerZ, scrubStatus, scrubProgress, frame, invocations,
                   rendered>>

\* A person of the given index and races standing still at the point of the
\* line of direction dir that lies offset away from the cluster centre.
Placed(index, originalRace, targetRace, dir, offset) ==
    [NewPerson(index, originalRace, targetRace, 0, 0, 0, 2)
        EXCEPT !.position2D = VAdd(V2(Num(clusterCenterX), Num(clusterCenterZ)),
                                   VScale(dir, offset)),
               !.velocity = V2(Num(0), Num(0))]

\* The lines (unit directions) and the offsets on them.  Offsets 1 apart are
\* closer than minSeparation and offsets 2 apart are exactly minSeparation
\* apart; FarOffsets are 2, 4 and 6 apart.  NearOffsets stay closer than
\* minSeparation after a step.  The numbers of a step must fit the 32-bit
\* integers of the rationals, which is what limits these sets.
Axis == V2(Num(1), Num(0))
Directions == {Axis, V2(Rat(3, 5), Rat(4, 5))}
Offsets == {Num(0), Num(1), Num(2)}
FarOffsets == {Num(-3), Num(-1), Num(1), Num(3)}
NearOffsets == {Rat(-1, 2), Num(0), Rat(1, 2), Num(1)}
Races == {0, 1}
ForceProgresses == {Num(0), Rat(1, 2), Num(1)}
Sizes == {2, 3}

\* Populations of n people on one line.
PlacedOn(dir, n, offsets) ==
    {[j \in 1..n |-> Placed(j - 1, races[j], 0, dir, places[j])] :
        races \in [1..n -> Races], places \in [1..n -> offsets]}

ForcePopulations ==
    PlacedOn(Axis, 2, FarOffsets) \cup UNION {PlacedOn(dir, n, Offsets) : dir \in Directions, n \in Sizes}

NearPopulations ==
    UNION {PlacedOn(dir, 2, NearOffsets) : dir \in Directions}

\* The clustering step under direct calls.
NextForce ==
    \/ \E population \in ForcePopulations, progress \in ForceProgresses :
          \E i \in 1..Len(population) :
              CallApplyClusteringForce(population, i, progress)
    \/ \E population \in NearPopulations, progress \in ForceProgresses :
          CallClusterEach(population, progress)

SpecForce == InitOne /\ [][NextForce]_vars

-----------------------------------------------------------------------------
(* Properties of the clustering step                                       *)

IsForceCall == call.op = "applyClusteringForce"

\* The people without the one at place j, and the place of person i among
\* them.
Without(population, j) == [m \in 1..(Len(population) - 1) |-> IF m < j THEN population[m] ELSE population[m + 1]]
PlaceWithout(i, j) == IF i < j THEN i ELSE i - 1

Delta(self, other) == VSub(other.position2D, self.position2D)
Dist(self, other) == VLength(Delta(self, other))
IsNear(self, other) == JLt(Dist(self, other), Num(minSeparation))
Dot(a, b) == JAdd(JMul(a.x, b.x), JMul(a.y, b.y))

\* The repulsion of a pair closer than minSeparation: one tenth of
\* (minSeparation - dist), along the unit vector away from the other person
\* (the zero vector for two people at the same point).
Separation(self, other) == VScale(VNormalize(Delta(self, other)), JNeg(JMul(Rat(1, 10), JSub(Num(minSeparation), Dist(self, other)))))

\* The velocity of person i after a call whose force is what the other
\* people except j contribute, plus the given term for j.
VelocityWith(population, i, j, progress, term) == NewVelocity(population[i], VAdd(Force(Without(population, j), PlaceWithout(i, j), progress), term))

\* C25: in a call of applyClusteringForce, every other person closer than
\* minSeparation contributes exactly the separation term to the force: a
\* repulsion of size 0.1 * (minSeparation - dist) directed away from that
\* person, whatever the original races of the two and whatever the progress,
\* and nothing else.
C25_NearPairOnlySeparates ==
    IsForceCall =>
        \A j \in (1..Len(call.people)) \ {call.index} :
            IsNear(call.people[call.index], call.people[j]) =>
                /\ ret.v[call.index].velocity = VelocityWith(call.people, call.index, j, call.progress, Separation(call.people[call.index], call.people[j]))
                /\ Dist(call.people[call.index], call.people[j]).n # 0 =>
                      /\ VLength(Separation(call.people[call.index], call.people[j])) = JMul(Rat(1, 10), JSub(Num(minSeparation), Dist(call.people[call.index], call.people[j])))
                      /\ JLt(Dot(Separation(call.people[call.index], call.people[j]), Delta(call.people[call.index], call.people[j])), Num(0))

\* A call with progress 1 on a person who has, off the axes, a person of
\* another original race 1 away and a person of the same race 2 away.
C25_Witness ==
    /\ IsForceCall
    /\ call.progress = Num(1)
    /\ Len(call.people) = 3
    /\ call.index = 1
    /\ call.people[1].position2D.y.n # 0
    /\ Dist(call.people[1], call.people[2]) = Num(1)
    /\ Dist(call.people[1], call.people[3]) = Num(2)
    /\ call.people[1].originalRace # call.people[2].originalRace
    /\ call.people[1].originalRace = call.people[3].originalRace

\* The separation terms of the first n people on person i.
RECURSIVE SeparationSum(_, _, _)
SeparationSum(population, i, n) ==
    IF n = 0 THEN V2(Num(0), Num(0))
    ELSE IF n # i /\ IsNear(population[i], population[n])
         THEN VAdd(SeparationSum(population, i, n - 1), Separation(population[i], population[n]))
         ELSE SeparationSum(population, i, n - 1)

\* The people with the original races of another assignment.
Recast(population, races) == [j \in DOMAIN population |-> [population[j] EXCEPT !.originalRace = races[j]]]

\* C26: a call of applyClusteringForce with progress 0 applies exactly the
\* separation terms of the people closer than minSeparation plus the
\* centre term, and the person ends at the same place with the same velocity
\* under every assignment of original races.
C26_ZeroProgressNoGroupTerm ==
    (IsForceCall /\ call.progress = Num(0)) =>
        /\ Strength(call.progress) = Num(0)
        /\ ret.v[call.index].velocity = NewVelocity(call.people[call.index], VAdd(SeparationSum(call.people, call.index, Len(call.people)), CenterForce(call.people[call.index])))
        /\ \A races \in [DOMAIN call.people -> Races] :
              ClusteringStep(Recast(call.people, races), call.index, call.progress)[call.index] = [ret.v[call.index] EXCEPT !.originalRace = races[call.index]]

\* A call with progress 0 on a person with a person of the same original race
\* and a person of another race both minSeparation or more away, and off the
\* centre.
C26_Witness ==
    /\ IsForceCall
    /\ call.progress = Num(0)
    /\ Len(call.people) = 3
    /\ call.index = 2
    /\ ~IsNear(call.people[2], call.people[1])
    /\ ~IsNear(call.people[2], call.people[3])
    /\ call.people[2].originalRace = call.people[1].originalRace
    /\ call.people[2].originalRace # call.people[3].originalRace
    /\ ret.v[2].velocity # V2(Num(0), Num(0))

\* The people with the target races of another assignment.
Retargeted(population, targets) == [j \in DOMAIN population |-> [population[j] EXCEPT !.targetRace = targets[j]]]

\* The people after person.update(progress) on each of them (the display
\* switches to the target categories at the person's threshold).
AllUpdated(population, progress) == [j \in DOMAIN population |-> Person_update(population[j], progress, Len(population))]

\* The people apart from what retargeting and display change.
Placement(population) == [j \in DOMAIN population |-> [originalRace |-> population[j].originalRace, position2D |-> population[j].position2D, velocity |-> population[j].velocity]]

\* No step of the engine changes the original race of a person.
OriginalRaceFixed == [][\A i \in DOMAIN people : people'[i].originalRace = people[i].originalRace]_vars

\* C21: a call of applyClusteringForce leaves every original race as it
\* was, and so does person.update under any target races; and the people end
\* in the same places with the same velocities whatever target races they
\* have and display, because the step compares original races only.
C21_AffinityByOriginalRace ==
    IsForceCall =>
        /\ \A j \in DOMAIN call.people : ret.v[j].originalRace = call.people[j].originalRace
        /\ \A targets \in [DOMAIN call.people -> Races], progress \in ForceProgresses :
              Placement(AllUpdated(Retargeted(call.people, targets), progress)) = Placement(call.people)
        /\ \A targets \in [DOMAIN call.people -> Races] :
              Placement(ClusteringStep(AllUpdated(Retargeted(call.people, targets), Num(1)), call.index, call.progress)) = Placement(ret.v)

\* A call with progress 1 on a person with a person of another original race
\* minSeparation away: the two have the same target race and repel.
C21_Witness ==
    /\ IsForceCall
    /\ call.progress = Num(1)
    /\ Len(call.people) = 2
    /\ call.index = 1
    /\ Dist(call.people[1], call.people[2]) = Num(minSeparation)
    /\ call.people[1].originalRace # call.people[2].originalRace
    /\ call.people[1].targetRace = call.people[2].targetRace
    /\ JGt(Dot(VSub(ret.v[1].position2D, call.people[1].position2D), Delta(call.people[1], call.people[2])), Num(0)) = FALSE
    /\ ret.v[1].position2D # ClusteringStep(Recast(call.people, [j \in 1..2 |-> 0]), 1, call.progress)[1].position2D

IsEachCall == call.op = "forEach"

\* What person i finds in this.viz.people when its turn comes: the people
\* before it as the loop left them, itself and the people after it as they
\* were before the loop.
SeenBy(before, after, i) == [j \in DOMAIN before |-> IF j < i THEN after[j] ELSE before[j]]

\* C29: after this.people.forEach(p => p.applyClusteringForce(progress))
\* every person has taken one step from where it was before the loop, under
\* the force of the people of lower index where the loop has moved them and
\* of the people of higher index where they were before the loop.
C29_SequentialInPlace ==
    IsEachCall =>
        \A i \in DOMAIN call.people :
            ret.v[i] = Moved(call.people[i], Force(SeenBy(call.people, ret.v, i), i, call.progress))

\* A loop over two people of which the second ends elsewhere than it would
\* under the forces of the positions before the loop.
C29_Witness ==
    /\ IsEachCall
    /\ Len(call.people) = 2
    /\ ret.v[1].position2D # call.people[1].position2D
    /\ ret.v[2].position2D # Moved(call.people[2], Force(call.people, 2, call.progress)).position2D

====
